---- MODULE Spec2Model ----
(***************************************************************************)
(* Model of jb_plugin_base's latency compensated bypass:                   *)
(*   - jb::MultichannelDelayLine          (DSP/DelayLine.h)                *)
(*   - jb::PluginAudioProcessorBase       (Processor/PluginAudio...Base.h) *)
(*                                                                         *)
(* Samples are IEEE-754 binary32 values.  A sample (and a gain) x is       *)
(* represented by the integer x * 2^26; every value the model computes is  *)
(* a multiple of 2^-26, and RoundToFloat rounds such a value to binary32   *)
(* (24 bit significand, round to nearest, ties to even).                   *)
(***************************************************************************)
EXTENDS Integers, Sequences, FiniteSets, TLC

\* ------------------------------------------------------------------ bounds
MaxLen == 3        \* largest delay line capacity (numSamples) constructed
MaxPushes == 3     \* longest per-channel push history followed after a reset
MaxBufLen == 2     \* longest src buffer handed to processBuffer / processBlock

MaxBlockLen == 2   \* largest maximum block size the host prepares (Spec)
LongBlockLen == 4  \* the maximum block size the host prepares (SpecLongBlocks)
MaxLatency == 2    \* largest latency the wet path reports

ChannelCounts == 1..2      \* mono and stereo
\* the sample rate a host runs at (before it, the member holds 0.0, or the
\* 50e3 that numChannelsChanged stores in its place)
SampleRates == {48000}

\* the float 1.0f
One == 2^26
\* input samples: 0.0f and 1.0f
Samples == {0, One}

\* all sequences over S of length 0..n
RECURSIVE SeqsUpTo(_, _)
SeqsUpTo(S, n) ==
    IF n = 0 THEN {<<>>}
    ELSE LET shorter == SeqsUpTo(S, n - 1)
         IN  shorter \cup {Append(s, x) : s \in {t \in shorter : Len(t) = n - 1}, x \in S}

\* all sequences over S of length exactly n
SeqsOfLen(S, n) == {s \in SeqsUpTo(S, n) : Len(s) = n}

\* ============================================================ DelayLine.h
\* A MultichannelDelayLine object: memory is the AudioBuffer (nChannels x
\* numSamples), indices the per channel cursor, length / numChannels the
\* const members.  Channels and slots are numbered from 0 as in the source.

\* memory.clear(): every slot of every channel is 0
clearedMemory(numSamples, nChannels) ==
    [c \in 0..(nChannels - 1) |-> [i \in 0..(numSamples - 1) |-> 0]]

\* the constructor
MultichannelDelayLine(numSamples, nChannels) ==
    [memory      |-> clearedMemory(numSamples, nChannels),
     indices     |-> [c \in 0..(nChannels - 1) |-> 0],
     length      |-> numSamples,
     numChannels |-> nChannels]

\* an empty std::unique_ptr<MultichannelDelayLine<float>>
nullptr == [memory |-> <<>>, indices |-> <<>>, length |-> 0, numChannels |-> 0]

\* mutant of push: the cursor is decremented and not checked against 0
pushUnclamped(dl, valueToPush, channel) ==
    LET idx     == dl.indices[channel]
        written == [dl.memory EXCEPT ![channel][idx] = valueToPush]
    IN  [dl EXCEPT !.memory  = written,
                   !.indices = [dl.indices EXCEPT ![channel] = idx - 1]]

\* mutant of push: the sample is always written to channel 0
pushIntoFirstChannel(dl, valueToPush, channel) ==
    LET idx     == dl.indices[channel]
        written == [dl.memory EXCEPT ![0][dl.indices[0]] = valueToPush]
        dec     == idx - 1
    IN  [dl EXCEPT !.memory  = written,
                   !.indices = [dl.indices EXCEPT ![channel] = IF dec < 0 THEN 0 ELSE dec]]

\* push: memoryPtr[c][idx] = valueToPush; --idx; if (idx < 0) idx = 0;
push(dl, valueToPush, channel) ==
    LET idx     == dl.indices[channel]
        written == [dl.memory EXCEPT ![channel][idx] = valueToPush]
        dec     == idx - 1
    IN  [dl EXCEPT !.memory  = written,
                   !.indices = [dl.indices EXCEPT ![channel] = IF dec < 0 THEN 0 ELSE dec]]

\* back: return memoryPtr[c][indices[c]];
back(dl, channel) == dl.memory[channel][dl.indices[channel]]

\* mutant of processBuffer: each sample is pushed before the delayed one is read
RECURSIVE processBufferPushFirst(_, _, _, _, _)
processBufferPushFirst(dl, src, dest, sample, channel) ==
    IF sample > Len(src) THEN [line |-> dl, dest |-> dest]
    ELSE LET pushedLine == push(dl, src[sample], channel)
         IN  processBufferPushFirst(pushedLine, src,
                                    Append(dest, back(pushedLine, channel)),
                                    sample + 1, channel)

\* the loop of processBuffer from iteration `sample` on (src is 1-based here):
\*     dest[sample] = back (channel);  push (src[sample], channel);
RECURSIVE processBufferLoop(_, _, _, _, _)
processBufferLoop(dl, src, dest, sample, channel) ==
    IF sample > Len(src) THEN [line |-> dl, dest |-> dest]
    ELSE processBufferLoop(push(dl, src[sample], channel), src,
                           Append(dest, back(dl, channel)),
                           sample + 1, channel)

\* processBuffer (src, dest, bufferLength, channel) with bufferLength = Len(src);
\* the result is the line afterwards and what was written to dest
processBuffer(dl, src, channel) == processBufferLoop(dl, src, <<>>, 1, channel)

\* the loop of MultichannelDelayLine::processBlock from `channel` on; a block
\* is a function from channel number to the channel's sequence of samples
RECURSIVE processBlockLoop(_, _, _, _)
processBlockLoop(dl, srcBlock, destBlock, channel) ==
    IF channel >= dl.numChannels THEN [line |-> dl, dest |-> destBlock]
    ELSE LET r == processBuffer(dl, srcBlock[channel], channel)
         IN  processBlockLoop(r.line, srcBlock,
                              [destBlock EXCEPT ![channel] = r.dest],
                              channel + 1)

\* MultichannelDelayLine::processBlock (srcBlock, destBlock)
delayLineProcessBlock(dl, srcBlock, destBlock) ==
    processBlockLoop(dl, srcBlock, destBlock, 0)

\* mutant of reset: the cursors are rewound but the memory is not cleared
resetKeepsMemory(dl) ==
    [dl EXCEPT !.indices = [c \in DOMAIN dl.indices |-> 0]]

\* mutant of reset: only the first channel's memory is cleared
resetClearsFirstChannelOnly(dl) ==
    [dl EXCEPT !.indices = [c \in DOMAIN dl.indices |-> 0],
               !.memory  = [dl.memory EXCEPT ![0] = [i \in 0..(dl.length - 1) |-> 0]]]

\* reset: std::fill (indices.begin(), indices.end(), 0); memory.clear();
reset(dl) ==
    [dl EXCEPT !.indices = [c \in DOMAIN dl.indices |-> 0],
               !.memory  = clearedMemory(dl.length, dl.numChannels)]

\* ====================================================== binary32 arithmetic
\* the spacing of binary32 values at magnitude x >= 0 (in units of 2^-26);
\* every multiple of 2^-26 below 2^-2 is a binary32 value
RECURSIVE ulp(_)
ulp(x) == IF x < 2^24 THEN 1 ELSE 2 * ulp(x \div 2)

\* x >= 0 rounded to binary32: to nearest, ties to the even significand
roundMagnitude(x) ==
    LET q    == ulp(x)
        low  == (x \div q) * q
        rest == x - low
    IN  IF 2 * rest < q THEN low
        ELSE IF 2 * rest > q THEN low + q
        ELSE IF (low \div q) % 2 = 0 THEN low ELSE low + q

RoundToFloat(x) == IF x < 0 THEN 0 - roundMagnitude(0 - x) ELSE roundMagnitude(x)

\* float + float
floatAdd(x, y) == RoundToFloat(x + y)

\* float * float for a whole-numbered sample (every sample that meets a gain
\* in this model is one: 0.0f or 1.0f)
floatMul(sample, gain) == RoundToFloat((sample \div One) * gain)

\* x / (float) n for 1 <= n <= 8 and |x| = 1.0f or 0: the quotient x/n rounded
\* to binary32 (to nearest, ties to even)
floatDivMagnitude(x, n) ==
    LET q    == ulp(x \div n)
        m    == n * q
        low  == (x \div m) * q
        rest == x - (x \div m) * m
    IN  IF 2 * rest < m THEN low
        ELSE IF 2 * rest > m THEN low + q
        ELSE IF (low \div q) % 2 = 0 THEN low ELSE low + q

floatDiv(x, n) == IF x < 0 THEN 0 - floatDivMagnitude(0 - x, n) ELSE floatDivMagnitude(x, n)

\* ====================================================== juce::AudioBuffer
\* A buffer / block is a function from channel number (from 0) to the
\* channel's sequence of samples.
numChannelsOf(block) == Cardinality(DOMAIN block)
numSamplesOf(block)  == IF DOMAIN block = {} THEN 0 ELSE Len(block[0])

\* a sample of a buffer that setSize re-pointed without clearing or keeping
\* its content: no value the program may rely on
unspecified == 0 - 1

\* AudioBuffer::setSize (newNumChannels, newNumSamples, false, false, true)
setSize(newNumChannels, newNumSamples) ==
    [c \in 0..(newNumChannels - 1) |-> [i \in 1..newNumSamples |-> unspecified]]

\* AudioBuffer::applyGain (channel, startSample, numSamples, gain) on one channel
applyGain(samples, startSample, numSamples, gain) ==
    [i \in 1..Len(samples) |->
        IF i > startSample /\ i <= startSample + numSamples
        THEN floatMul(samples[i], gain) ELSE samples[i]]

\* the loop of AudioBuffer::applyGainRamp on one channel, at (1-based) position pos:
\*     while (--numSamples >= 0) { *d++ *= startGain; startGain += increment; }
RECURSIVE applyGainRampLoop(_, _, _, _, _)
applyGainRampLoop(samples, pos, numSamples, startGain, increment) ==
    IF numSamples <= 0 THEN samples
    ELSE applyGainRampLoop([samples EXCEPT ![pos] = floatMul(@, startGain)],
                           pos + 1, numSamples - 1,
                           floatAdd(startGain, increment), increment)

\* AudioBuffer::applyGainRamp (channel, startSample, numSamples, startGain, endGain)
applyGainRampChannel(samples, startSample, numSamples, startGain, endGain) ==
    IF startGain = endGain THEN applyGain(samples, startSample, numSamples, startGain)
    ELSE applyGainRampLoop(samples, startSample + 1, numSamples, startGain,
                           floatDiv(endGain - startGain, numSamples))

\* AudioBuffer::applyGainRamp (startSample, numSamples, startGain, endGain): all channels
applyGainRamp(block, startSample, numSamples, startGain, endGain) ==
    [c \in DOMAIN block |->
        applyGainRampChannel(block[c], startSample, numSamples, startGain, endGain)]

\* AudioBlock::add: sample by sample dest += src
add(destBlock, srcBlock) ==
    [c \in DOMAIN destBlock |->
        [i \in 1..Len(destBlock[c]) |-> floatAdd(destBlock[c][i], srcBlock[c][i])]]

\* ======================================================= PluginAudioProcessorBase.h
\* int bypassRampLen = 128, scaled down so that blocks longer than the ramp
\* and ramp lengths that are no power of two are within the model's blocks
bypassRampLen == 3

Min(x, y) == IF x < y THEN x ELSE y

\* mutant of rampLengthOf: the ramp spans the whole block, however long
rampLengthWholeBlock(numSamples) == numSamples

\* auto rampLength = std::min (buffer.getNumSamples(), bypassRampLen);
rampLengthOf(numSamples) == Min(numSamples, bypassRampLen)

\* what the gain ramps of processWithBypassFade do to a sample that is 1.0f
\* at every position of a block of numSamples samples: the gain at that position
gainsOfRamp(numSamples, startGain, endGain) ==
    applyGainRampChannel([i \in 1..numSamples |-> One], 0,
                         rampLengthOf(numSamples), startGain, endGain)

\* the buffers of a delayLine->processBlock (inOutBlock, bypassBlock) call of
\* the processor: inOutBlock refers to the host's block, bypassBlock to the
\* member bypassTempBuffer, which has the size of `resized` at that time;
\* reset tells whether delayLine->reset() was called right before it
lineCallInto(resized) ==
    [src |-> "buffer", dest |-> "bypassTempBuffer", scratch |-> resized,
     reset |-> FALSE]

\* a block that was processed without a call of the delay line
noLineCall == [src |-> "none", dest |-> "none", scratch |-> <<>>,
               reset |-> FALSE]

\* mutant of deriveDry: the delay line is reset in both directions of the fade
deriveDryResetsAlways(fadeIntoBypass, buffer0, dl) ==
    LET resized == setSize(numChannelsOf(buffer0), numSamplesOf(buffer0))
    IN  IF dl = nullptr
        THEN [line |-> dl, dest |-> buffer0, lineCall |-> noLineCall]
        ELSE delayLineProcessBlock(reset(dl), buffer0, resized)
                 @@ [lineCall |-> [lineCallInto(resized) EXCEPT !.reset = TRUE]]

\* mutant of deriveDry: the delay line is not reset when fading into bypass
deriveDryNoReset(fadeIntoBypass, buffer0, dl) ==
    LET resized == setSize(numChannelsOf(buffer0), numSamplesOf(buffer0))
    IN  IF dl = nullptr
        THEN [line |-> dl, dest |-> buffer0, lineCall |-> noLineCall]
        ELSE delayLineProcessBlock(dl, buffer0, resized)
                 @@ [lineCall |-> lineCallInto(resized)]

\* mutant of deriveDry: without a delay line the dry signal is silence
deriveDryFromSilence(fadeIntoBypass, buffer0, dl) ==
    LET resized == setSize(numChannelsOf(buffer0), numSamplesOf(buffer0))
    IN  IF dl = nullptr
        THEN [line |-> dl,
              dest |-> [c \in DOMAIN buffer0 |-> [i \in 1..Len(buffer0[c]) |-> 0]],
              lineCall |-> noLineCall]
        ELSE delayLineProcessBlock(IF fadeIntoBypass THEN reset(dl) ELSE dl,
                                   buffer0, resized)
                 @@ [lineCall |-> [lineCallInto(resized)
                                       EXCEPT !.reset = fadeIntoBypass]]

\* the dry signal of processWithBypassFade, derived from the block as received:
\*     if (delayLine == nullptr) bypassBlock.copyFrom (inOutBlock);
\*     else { if (fadeIntoBypass) delayLine->reset();
\*            delayLine->processBlock (inOutBlock, bypassBlock); }
\* after bypassTempBuffer.setSize (buffer.getNumChannels(), buffer.getNumSamples(), ...).
\* The result: the delay line afterwards, what is in the scratch buffer, and
\* the buffers the delay line was called with (and whether it was reset).
deriveDry(fadeIntoBypass, buffer0, dl) ==
    LET resized == setSize(numChannelsOf(buffer0), numSamplesOf(buffer0))
    IN  IF dl = nullptr
        THEN [line |-> dl, dest |-> buffer0, lineCall |-> noLineCall]
        ELSE delayLineProcessBlock(IF fadeIntoBypass THEN reset(dl) ELSE dl,
                                   buffer0, resized)
                 @@ [lineCall |-> [lineCallInto(resized)
                                       EXCEPT !.reset = fadeIntoBypass]]

\* mutant of processWithBypassFade: the scratch buffer gets the ramp of the block
processWithBypassFadeSameRamp(fadeIntoBypass, buffer0, wet, dl) ==
    LET numSamples == numSamplesOf(buffer0)
        derived    == deriveDry(fadeIntoBypass, buffer0, dl)
        dry        == derived.dest
        rampLength == rampLengthOf(numSamples)
        a          == IF fadeIntoBypass THEN One ELSE 0
        b          == IF fadeIntoBypass THEN 0 ELSE One
        rampedWet  == applyGainRamp(wet, 0, rampLength, a, b)
        rampedDry  == applyGainRamp(dry, 0, rampLength, a, b)
    IN  [buffer           |-> add(rampedWet, rampedDry),
         bypassTempBuffer |-> rampedDry,
         delayLine        |-> derived.line,
         lineCall         |-> derived.lineCall,
         dry              |-> dry,
         wetGain          |-> gainsOfRamp(numSamples, a, b),
         dryGain          |-> gainsOfRamp(numSamples, a, b)]

\* mutant of processWithBypassFade: the subclass's processBlock runs first and
\* the dry signal is derived from what it left in the block
processWithBypassFadeWetFirst(fadeIntoBypass, buffer0, wet, dl) ==
    LET numSamples == numSamplesOf(buffer0)
        derived    == deriveDry(fadeIntoBypass, wet, dl)
        dry        == derived.dest
        rampLength == rampLengthOf(numSamples)
        a          == IF fadeIntoBypass THEN One ELSE 0
        b          == IF fadeIntoBypass THEN 0 ELSE One
        rampedWet  == applyGainRamp(wet, 0, rampLength, a, b)
        rampedDry  == applyGainRamp(dry, 0, rampLength, b, a)
    IN  [buffer           |-> add(rampedWet, rampedDry),
         bypassTempBuffer |-> rampedDry,
         delayLine        |-> derived.line,
         lineCall         |-> derived.lineCall,
         dry              |-> dry,
         wetGain          |-> gainsOfRamp(numSamples, a, b),
         dryGain          |-> gainsOfRamp(numSamples, b, a)]

\* processWithBypassFade<fadeIntoBypass> (buffer): buffer0 is the block as
\* received, wet what the subclass's processBlock leaves in it, dl the delay
\* line (or nullptr).  The result: the block and the scratch buffer at return,
\* the delay line, and the dry signal and the gains that went into the block.
processWithBypassFade(fadeIntoBypass, buffer0, wet, dl) ==
    LET numSamples == numSamplesOf(buffer0)
        derived    == deriveDry(fadeIntoBypass, buffer0, dl)
        dry        == derived.dest
        rampLength == rampLengthOf(numSamples)
        a          == IF fadeIntoBypass THEN One ELSE 0
        b          == IF fadeIntoBypass THEN 0 ELSE One
        rampedWet  == applyGainRamp(wet, 0, rampLength, a, b)
        rampedDry  == applyGainRamp(dry, 0, rampLength, b, a)
    IN  [buffer           |-> add(rampedWet, rampedDry),
         bypassTempBuffer |-> rampedDry,
         delayLine        |-> derived.line,
         lineCall         |-> derived.lineCall,
         dry              |-> dry,
         wetGain          |-> gainsOfRamp(numSamples, a, b),
         dryGain          |-> gainsOfRamp(numSamples, b, a)]

\* mutant of processThroughDelayLine: the line's output stays in the scratch
\* buffer and is not copied back into the block
processThroughDelayLineNoCopy(buffer0, dl) ==
    LET resized == setSize(numChannelsOf(buffer0), numSamplesOf(buffer0))
        viaLine == delayLineProcessBlock(dl, buffer0, resized)
    IN  [buffer           |-> buffer0,
         bypassTempBuffer |-> viaLine.dest,
         delayLine        |-> viaLine.line,
         lineCall         |-> lineCallInto(resized)]

\* mutant of processThroughDelayLine: the delay line is called with the block
\* as both source and destination
processThroughDelayLineInPlace(buffer0, dl) ==
    LET viaLine == delayLineProcessBlock(dl, buffer0, buffer0)
    IN  [buffer           |-> viaLine.dest,
         bypassTempBuffer |-> viaLine.dest,
         delayLine        |-> viaLine.line,
         lineCall         |-> [src |-> "buffer", dest |-> "buffer",
                               scratch |-> buffer0, reset |-> FALSE]]

\* the else-if branch of processBlockBypassed: the block is fed to the delay
\* line and replaced by what the line wrote to the scratch buffer
processThroughDelayLine(buffer0, dl) ==
    LET resized == setSize(numChannelsOf(buffer0), numSamplesOf(buffer0))
        viaLine == delayLineProcessBlock(dl, buffer0, resized)
    IN  [buffer           |-> viaLine.dest,
         bypassTempBuffer |-> viaLine.dest,
         delayLine        |-> viaLine.line,
         lineCall         |-> lineCallInto(resized)]

\* what a block that did not go through processWithBypassFade leaves in `block`
noFade == [dry |-> <<>>, wetGain |-> <<>>, dryGain |-> <<>>]

\* mutant of processBlockBypassed: the scratch buffer is resized to the block
\* in steady bypass without a delay line too
processBlockBypassedResizes(last, buffer0, wet, dl, temp) ==
    IF ~last
    THEN LET f == processWithBypassFade(TRUE, buffer0, wet, dl)
         IN  [buffer |-> f.buffer, bypassTempBuffer |-> f.bypassTempBuffer,
              delayLine |-> f.delayLine, lastBlockWasBypassed |-> TRUE,
              route |-> "fadeIntoBypass", wetCalls |-> 1, lineCall |-> f.lineCall,
              dry |-> f.dry, wetGain |-> f.wetGain, dryGain |-> f.dryGain]
    ELSE IF dl # nullptr
    THEN LET d == processThroughDelayLine(buffer0, dl)
         IN  [buffer |-> d.buffer, bypassTempBuffer |-> d.bypassTempBuffer,
              delayLine |-> d.delayLine, lastBlockWasBypassed |-> last,
              route |-> "bypassedDelayed", wetCalls |-> 0,
              lineCall |-> d.lineCall] @@ noFade
    ELSE [buffer |-> buffer0,
          bypassTempBuffer |-> setSize(numChannelsOf(buffer0), numSamplesOf(buffer0)),
          delayLine |-> dl, lastBlockWasBypassed |-> last,
          route |-> "bypassedThrough", wetCalls |-> 0,
          lineCall |-> noLineCall] @@ noFade

\* mutant of processBlockBypassed: the fade into bypass does not run the
\* subclass's processBlock and blends the block as received with the dry signal
processBlockBypassedSkipsWet(last, buffer0, wet, dl, temp) ==
    IF ~last
    THEN LET f == processWithBypassFade(TRUE, buffer0, buffer0, dl)
         IN  [buffer |-> f.buffer, bypassTempBuffer |-> f.bypassTempBuffer,
              delayLine |-> f.delayLine, lastBlockWasBypassed |-> TRUE,
              route |-> "fadeIntoBypass", wetCalls |-> 0, lineCall |-> f.lineCall,
              dry |-> f.dry, wetGain |-> f.wetGain, dryGain |-> f.dryGain]
    ELSE IF dl # nullptr
    THEN LET d == processThroughDelayLine(buffer0, dl)
         IN  [buffer |-> d.buffer, bypassTempBuffer |-> d.bypassTempBuffer,
              delayLine |-> d.delayLine, lastBlockWasBypassed |-> last,
              route |-> "bypassedDelayed", wetCalls |-> 0,
              lineCall |-> d.lineCall] @@ noFade
    ELSE [buffer |-> buffer0, bypassTempBuffer |-> temp,
          delayLine |-> dl, lastBlockWasBypassed |-> last,
          route |-> "bypassedThrough", wetCalls |-> 0,
          lineCall |-> noLineCall] @@ noFade

\* processBlockBypassed (buffer, midi): `last` is lastBlockWasBypassed at entry.
\* The result: the members and the block at return, which path was taken and
\* how often the subclass's processBlock ran.
processBlockBypassed(last, buffer0, wet, dl, temp) ==
    IF ~last
    THEN LET f == processWithBypassFade(TRUE, buffer0, wet, dl)
         IN  [buffer |-> f.buffer, bypassTempBuffer |-> f.bypassTempBuffer,
              delayLine |-> f.delayLine, lastBlockWasBypassed |-> TRUE,
              route |-> "fadeIntoBypass", wetCalls |-> 1, lineCall |-> f.lineCall,
              dry |-> f.dry, wetGain |-> f.wetGain, dryGain |-> f.dryGain]
    ELSE IF dl # nullptr
    THEN LET d == processThroughDelayLine(buffer0, dl)
         IN  [buffer |-> d.buffer, bypassTempBuffer |-> d.bypassTempBuffer,
              delayLine |-> d.delayLine, lastBlockWasBypassed |-> last,
              route |-> "bypassedDelayed", wetCalls |-> 0,
              lineCall |-> d.lineCall] @@ noFade
    ELSE [buffer |-> buffer0, bypassTempBuffer |-> temp,
          delayLine |-> dl, lastBlockWasBypassed |-> last,
          route |-> "bypassedThrough", wetCalls |-> 0,
          lineCall |-> noLineCall] @@ noFade

\* mutant of processBlock: lastBlockWasBypassed is not cleared after the fade
\* back into the wet signal
processBlockKeepsFlag(bypass, last, buffer0, wet, dl, temp) ==
    IF bypass THEN processBlockBypassed(last, buffer0, wet, dl, temp)
    ELSE IF last
    THEN LET f == processWithBypassFade(FALSE, buffer0, wet, dl)
         IN  [buffer |-> f.buffer, bypassTempBuffer |-> f.bypassTempBuffer,
              delayLine |-> f.delayLine, lastBlockWasBypassed |-> last,
              route |-> "fadeIntoWet", wetCalls |-> 1, lineCall |-> f.lineCall,
              dry |-> f.dry, wetGain |-> f.wetGain, dryGain |-> f.dryGain]
    ELSE [buffer |-> wet, bypassTempBuffer |-> temp,
          delayLine |-> dl, lastBlockWasBypassed |-> last,
          route |-> "wet", wetCalls |-> 1,
          lineCall |-> noLineCall] @@ noFade

\* mutant of processBlock: a steady wet block is fed to the delay line as well
processBlockWarmsLine(bypass, last, buffer0, wet, dl, temp) ==
    IF bypass THEN processBlockBypassed(last, buffer0, wet, dl, temp)
    ELSE IF last
    THEN LET f == processWithBypassFade(FALSE, buffer0, wet, dl)
         IN  [buffer |-> f.buffer, bypassTempBuffer |-> f.bypassTempBuffer,
              delayLine |-> f.delayLine, lastBlockWasBypassed |-> FALSE,
              route |-> "fadeIntoWet", wetCalls |-> 1, lineCall |-> f.lineCall,
              dry |-> f.dry, wetGain |-> f.wetGain, dryGain |-> f.dryGain]
    ELSE [buffer |-> wet, bypassTempBuffer |-> temp,
          delayLine |-> deriveDry(FALSE, buffer0, dl).line,
          lastBlockWasBypassed |-> last,
          route |-> "wet", wetCalls |-> 1,
          lineCall |-> noLineCall] @@ noFade

\* processBlock (buffer, midi): `bypass` is bypassParameter->getValue() > 0.5f
processBlock(bypass, last, buffer0, wet, dl, temp) ==
    IF bypass THEN processBlockBypassed(last, buffer0, wet, dl, temp)
    ELSE IF last
    THEN LET f == processWithBypassFade(FALSE, buffer0, wet, dl)
         IN  [buffer |-> f.buffer, bypassTempBuffer |-> f.bypassTempBuffer,
              delayLine |-> f.delayLine, lastBlockWasBypassed |-> FALSE,
              route |-> "fadeIntoWet", wetCalls |-> 1, lineCall |-> f.lineCall,
              dry |-> f.dry, wetGain |-> f.wetGain, dryGain |-> f.dryGain]
    ELSE [buffer |-> wet, bypassTempBuffer |-> temp,
          delayLine |-> dl, lastBlockWasBypassed |-> last,
          route |-> "wet", wetCalls |-> 1,
          lineCall |-> noLineCall] @@ noFade

\* mutant of prepareToPlay: the two flags are computed after the new values
\* have been stored
prepareToPlayComparesAfterStoring(newSampleRate, maxNumSamplesPerBlock, sampleRate, maxBlock) ==
    [currentSampleRate            |-> newSampleRate,
     currentMaxNumSamplesPerBlock |-> maxNumSamplesPerBlock,
     prepareResources |-> [sampleRateChanged   |-> newSampleRate # newSampleRate,
                           maxBlockSizeChanged |-> maxNumSamplesPerBlock # maxNumSamplesPerBlock,
                           numChannelsChanged  |-> FALSE,
                           sampleRate          |-> newSampleRate,
                           maxNumSamplesPerBlock |-> maxNumSamplesPerBlock]]

\* prepareToPlay (newSampleRate, maxNumSamplesPerBlock) up to its call of
\* prepareResources: sampleRate and maxBlock are currentSampleRate and
\* currentMaxNumSamplesPerBlock at entry. The result: the two members as
\* stored, and the arguments of prepareResources together with what
\* getSampleRate() and getMaxNumSamplesPerBlock() return while it runs.
prepareToPlay(newSampleRate, maxNumSamplesPerBlock, sampleRate, maxBlock) ==
    [currentSampleRate            |-> newSampleRate,
     currentMaxNumSamplesPerBlock |-> maxNumSamplesPerBlock,
     prepareResources |-> [sampleRateChanged   |-> newSampleRate # sampleRate,
                           maxBlockSizeChanged |-> maxNumSamplesPerBlock # maxBlock,
                           numChannelsChanged  |-> FALSE,
                           sampleRate          |-> newSampleRate,
                           maxNumSamplesPerBlock |-> maxNumSamplesPerBlock]]

\* numChannelsChanged up to its call of prepareResources
numChannelsChanged(sampleRate, maxBlock) ==
    LET rate == IF sampleRate = 0 THEN 50000 ELSE sampleRate
    IN  [currentSampleRate |-> rate,
         prepareResources  |-> [sampleRateChanged   |-> FALSE,
                                maxBlockSizeChanged |-> FALSE,
                                numChannelsChanged  |-> TRUE,
                                sampleRate          |-> rate,
                                maxNumSamplesPerBlock |-> maxBlock]]

\* mutant of prepareBypassDelayLine: the new line's memory is not cleared and
\* holds 1.0f in every slot
prepareBypassDelayLineUncleared(latency, numChans, maxNumSamplesPerBlock, temp) ==
    IF latency # 0
    THEN [delayLine        |-> [MultichannelDelayLine(latency, numChans) EXCEPT
                                   !.memory = [c \in 0..(numChans - 1) |->
                                                  [i \in 0..(latency - 1) |-> One]]],
          bypassTempBuffer |-> setSize(numChans, maxNumSamplesPerBlock)]
    ELSE [delayLine        |-> nullptr,
          bypassTempBuffer |-> temp]

\* mutant of prepareBypassDelayLine: the line is built for one channel
prepareBypassDelayLineMono(latency, numChans, maxNumSamplesPerBlock, temp) ==
    IF latency # 0
    THEN [delayLine        |-> MultichannelDelayLine(latency, 1),
          bypassTempBuffer |-> setSize(numChans, maxNumSamplesPerBlock)]
    ELSE [delayLine        |-> nullptr,
          bypassTempBuffer |-> temp]

\* prepareBypassDelayLine: with a latency, a new line of that depth and a
\* scratch buffer of the maximum block size; without, no line
prepareBypassDelayLine(latency, numChans, maxNumSamplesPerBlock, temp) ==
    IF latency # 0
    THEN [delayLine        |-> MultichannelDelayLine(latency, numChans),
          bypassTempBuffer |-> setSize(numChans, maxNumSamplesPerBlock)]
    ELSE [delayLine        |-> nullptr,
          bypassTempBuffer |-> temp]

\* ------------------------------------------------------------------ state
VARIABLES
    delayLine,   \* the MultichannelDelayLine object (nullptr: none)
    pushed,      \* history: per channel, the samples pushed since construction / reset
    streamed,    \* history: per channel, TRUE while every such push came from processBuffer
    delayed,     \* history: per channel, what processBuffer wrote to dest since then
    call,        \* history: the most recent call (of the delay line used
                 \* directly, or of a processor callback by the host), its
                 \* arguments and its result; for a reconfiguration, the
                 \* arguments of prepareResources and the latency it reported
    lastBlockWasBypassed,
    bypassTempBuffer,
    buffer,                        \* the block of the latest processBlock call, at return
    latencySamples,                \* AudioProcessor::getLatencySamples()
    totalNumOutputChannels,        \* AudioProcessor::getTotalNumOutputChannels()
    currentMaxNumSamplesPerBlock,
    currentSampleRate,
    block,       \* history: how the latest block was processed, the bypass
                 \* flag read for the block before it (bypassBefore; on the
                 \* first block, the block's own), whether the processor was
                 \* reconfigured between that block and this one
                 \* (afterReconfiguration) and whether it was reconfigured
                 \* since (reconfigured)
    messageOfTheDay, \* the MessageOfTheDay object: its const members
    thread,          \* the background thread of checkForNewMessages: where it
                     \* stands, what its lambda captured and what it received
    future,          \* the shared state of the promise / future pair
    settingsManager, \* the SettingsManager singleton: settings, settingsWereWritten
    settingsFile,    \* the settings file on disk
    lifetime         \* history: the file and the settings as the constructor
                     \* left them (file, loaded) and the value last written
                     \* to each id since (written)

lineVars == <<delayLine, pushed, streamed, delayed, call>>

processorVars == <<lastBlockWasBypassed, bypassTempBuffer, buffer,
                   latencySamples, totalNumOutputChannels,
                   currentMaxNumSamplesPerBlock, currentSampleRate, block>>

messageVars == <<messageOfTheDay, thread, future>>

settingsVars == <<settingsManager, settingsFile, lifetime>>

vars == <<delayLine, pushed, streamed, delayed, call,
          lastBlockWasBypassed, bypassTempBuffer, buffer,
          latencySamples, totalNumOutputChannels,
          currentMaxNumSamplesPerBlock, currentSampleRate, block,
          messageOfTheDay, thread, future,
          settingsManager, settingsFile, lifetime>>

\* no MessageOfTheDay object has been made
NoMessageOfTheDay ==
    /\ messageOfTheDay = [constructed |-> FALSE]
    /\ thread = [pc |-> "none"]
    /\ future = [state |-> "none"]

\* no SettingsManager has been made
NoSettingsManager ==
    /\ settingsManager = [constructed |-> FALSE]
    /\ settingsFile = [exists |-> FALSE]
    /\ lifetime = [constructed |-> FALSE]

Channels == DOMAIN delayLine.indices

noHistory(nChannels) == [c \in 0..(nChannels - 1) |-> <<>>]

\* the members of a PluginAudioProcessorBase that has processed no block:
\* lastBlockWasBypassed has no initialiser
ProcessorConstructed ==
    /\ lastBlockWasBypassed \in BOOLEAN
    /\ bypassTempBuffer = <<>>
    /\ buffer = <<>>
    /\ latencySamples = 0
    /\ totalNumOutputChannels \in ChannelCounts
    /\ currentMaxNumSamplesPerBlock = 0
    /\ currentSampleRate = 0
    /\ block = [route |-> "none"]

\* ---------------------------------------------- a delay line used directly
\* (the processor around it is idle: constructed, never prepared)
IdleProcessor ==
    /\ lastBlockWasBypassed = FALSE
    /\ bypassTempBuffer = <<>>
    /\ buffer = <<>>
    /\ latencySamples = 0
    /\ totalNumOutputChannels = 1
    /\ currentMaxNumSamplesPerBlock = 0
    /\ currentSampleRate = 0
    /\ block = [route |-> "none"]

InitDelayLine ==
    /\ IdleProcessor
    /\ NoMessageOfTheDay
    /\ NoSettingsManager
    /\ \E numSamples \in 1..MaxLen, nChannels \in ChannelCounts :
           /\ delayLine = MultichannelDelayLine(numSamples, nChannels)
           /\ pushed    = noHistory(nChannels)
           /\ streamed  = [c \in 0..(nChannels - 1) |-> TRUE]
           /\ delayed   = noHistory(nChannels)
           /\ call      = [op |-> "construct"]

Push ==
    \E valueToPush \in Samples, channel \in Channels :
        /\ Len(pushed[channel]) < MaxPushes
        /\ delayLine' = push(delayLine, valueToPush, channel)
        /\ pushed'    = [pushed EXCEPT ![channel] = Append(@, valueToPush)]
        /\ streamed'  = [streamed EXCEPT ![channel] = FALSE]
        /\ delayed'   = [delayed EXCEPT ![channel] = <<>>]
        /\ call'      = [op |-> "push", channel |-> channel, before |-> delayLine]
        /\ UNCHANGED <<processorVars, messageVars, settingsVars>>

Back ==
    \E channel \in Channels :
        /\ call' = [op |-> "back", channel |-> channel,
                    result |-> back(delayLine, channel)]
        /\ UNCHANGED <<delayLine, pushed, streamed, delayed>>
        /\ UNCHANGED <<processorVars, messageVars, settingsVars>>

ProcessBuffer ==
    \E channel \in Channels, src \in SeqsUpTo(Samples, MaxBufLen) :
        LET r == processBuffer(delayLine, src, channel)
        IN  /\ Len(pushed[channel]) + Len(src) <= MaxPushes
            /\ delayLine' = r.line
            /\ pushed'    = [pushed EXCEPT ![channel] = @ \o src]
            /\ delayed'   = [delayed EXCEPT ![channel] =
                                IF streamed[channel] THEN @ \o r.dest ELSE <<>>]
            /\ call'      = [op |-> "processBuffer", channel |-> channel,
                             before |-> delayLine, src |-> src, dest |-> r.dest]
            /\ UNCHANGED streamed
            /\ UNCHANGED <<processorVars, messageVars, settingsVars>>

DelayLineProcessBlock ==
    \E numSamples \in 0..MaxBufLen :
      \E srcBlock \in [Channels -> SeqsOfLen(Samples, numSamples)] :
        LET r == delayLineProcessBlock(delayLine, srcBlock,
                                       [c \in Channels |-> <<>>])
        IN  /\ \A c \in Channels : Len(pushed[c]) + numSamples <= MaxPushes
            /\ delayLine' = r.line
            /\ pushed'    = [c \in Channels |-> pushed[c] \o srcBlock[c]]
            /\ delayed'   = [c \in Channels |->
                                IF streamed[c] THEN delayed[c] \o r.dest[c] ELSE <<>>]
            /\ call'      = [op |-> "processBlock", before |-> delayLine,
                             src |-> srcBlock, dest |-> r.dest]
            /\ UNCHANGED streamed
            /\ UNCHANGED <<processorVars, messageVars, settingsVars>>

Reset ==
    /\ delayLine' = reset(delayLine)
    /\ pushed'    = noHistory(delayLine.numChannels)
    /\ streamed'  = [c \in Channels |-> TRUE]
    /\ delayed'   = noHistory(delayLine.numChannels)
    /\ call'      = [op |-> "reset", before |-> delayLine,
                     pushesBefore |-> [c \in Channels |-> Len(pushed[c])]]
    /\ UNCHANGED <<processorVars, messageVars, settingsVars>>

NextDelayLine ==
    \/ Push
    \/ Back
    \/ ProcessBuffer
    \/ DelayLineProcessBlock
    \/ Reset

SpecDelayLine == InitDelayLine /\ [][NextDelayLine]_vars

\* ------------------------------------------------- the processor in a host
\* the signals of numSamples samples a channel of a block carries: silence,
\* a constant 1.0f, or a unit impulse at any one position
Signals(numSamples) ==
    {[i \in 1..numSamples |-> 0], [i \in 1..numSamples |-> One]}
        \cup {[i \in 1..numSamples |-> IF i = k THEN One ELSE 0] : k \in 1..numSamples}

complement(samples) == [i \in 1..Len(samples) |-> One - samples[i]]

\* the blocks of numChans channels and numSamples samples the host hands in:
\* a signal in channel 0, its complement in every further channel
Blocks(numChans, numSamples) ==
    {[c \in 0..(numChans - 1) |-> IF c = 0 THEN s ELSE complement(s)] :
        s \in Signals(numSamples)}

\* what the subclass's processBlock (the wet path) leaves in such a block:
\* silence or a constant 1.0f in channel 0, the complement in the others
WetBlocks(numChans, numSamples) ==
    {[c \in 0..(numChans - 1) |-> [i \in 1..numSamples |-> IF c = 0 THEN v ELSE One - v]] :
        v \in Samples}

\* block after a reconfiguration: no block has been processed since
interrupted(b) == IF b.route = "none" THEN b ELSE [b EXCEPT !.reconfigured = TRUE]

Init ==
    /\ ProcessorConstructed
    /\ NoMessageOfTheDay
    /\ NoSettingsManager
    /\ delayLine = nullptr
    /\ pushed    = <<>>
    /\ streamed  = <<>>
    /\ delayed   = <<>>
    /\ call      = [op |-> "construct"]

\* prepareToPlay (newSampleRate, maxNumSamplesPerBlock) as called by a host
\* that picks its arguments from the given sets; the subclass's
\* prepareResources reports its latency (setLatencySamples) on the way
PrepareToPlayBy(sampleRates, blockSizes, latencies) ==
    \E newSampleRate \in sampleRates, maxNumSamplesPerBlock \in blockSizes,
       latency \in latencies :
        LET q == prepareToPlay(newSampleRate, maxNumSamplesPerBlock,
                               currentSampleRate, currentMaxNumSamplesPerBlock)
            p == prepareBypassDelayLine(latency, totalNumOutputChannels,
                                        q.currentMaxNumSamplesPerBlock,
                                        bypassTempBuffer)
        IN  /\ currentSampleRate' = q.currentSampleRate
            /\ currentMaxNumSamplesPerBlock' = q.currentMaxNumSamplesPerBlock
            /\ latencySamples' = latency
            /\ delayLine' = p.delayLine
            /\ bypassTempBuffer' = p.bypassTempBuffer
            /\ block' = interrupted(block)
            /\ call' = [op |-> "prepareToPlay",
                        prepareResources |-> q.prepareResources,
                        latency |-> latency]
            /\ UNCHANGED <<lastBlockWasBypassed, buffer, totalNumOutputChannels>>
            /\ UNCHANGED <<pushed, streamed, delayed>>
            /\ UNCHANGED <<messageVars, settingsVars>>

PrepareToPlay == PrepareToPlayBy(SampleRates, 1..MaxBlockLen, 0..MaxLatency)

\* numChannelsChanged, called once the bus layout has numChans output channels
NumChannelsChanged ==
    \E numChans \in ChannelCounts, latency \in 0..MaxLatency :
        LET q == numChannelsChanged(currentSampleRate, currentMaxNumSamplesPerBlock)
            p == prepareBypassDelayLine(latency, numChans,
                                        currentMaxNumSamplesPerBlock, bypassTempBuffer)
        IN  /\ totalNumOutputChannels' = numChans
            /\ currentSampleRate' = q.currentSampleRate
            /\ latencySamples' = latency
            /\ delayLine' = p.delayLine
            /\ bypassTempBuffer' = p.bypassTempBuffer
            /\ block' = interrupted(block)
            /\ call' = [op |-> "numChannelsChanged",
                        prepareResources |-> q.prepareResources,
                        latency |-> latency]
            /\ UNCHANGED <<lastBlockWasBypassed, buffer,
                           currentMaxNumSamplesPerBlock>>
            /\ UNCHANGED <<pushed, streamed, delayed>>
            /\ UNCHANGED <<messageVars, settingsVars>>

\* the audio callback: one block of at most the prepared size in the prepared
\* channel layout; bypass is the bypass parameter as read for this block and
\* wet what the subclass's processBlock makes of the block if it is run
ProcessBlock ==
    /\ currentMaxNumSamplesPerBlock > 0
    /\ \E bypass \in BOOLEAN, numSamples \in 1..currentMaxNumSamplesPerBlock :
         \E buffer0 \in Blocks(totalNumOutputChannels, numSamples),
            wet \in WetBlocks(totalNumOutputChannels, numSamples) :
            \E r \in {processBlock(bypass, lastBlockWasBypassed, buffer0, wet,
                                  delayLine, bypassTempBuffer)} :
                /\ buffer' = r.buffer
                /\ bypassTempBuffer' = r.bypassTempBuffer
                /\ delayLine' = r.delayLine
                /\ lastBlockWasBypassed' = r.lastBlockWasBypassed
                /\ block' = [route    |-> r.route,
                             bypass   |-> bypass,
                             first    |-> block.route = "none",
                             bypassBefore |-> IF block.route = "none" THEN bypass
                                              ELSE block.bypass,
                             previous |-> lastBlockWasBypassed,
                             input    |-> buffer0,
                             wet      |-> IF r.wetCalls = 0 THEN <<>> ELSE wet,
                             wetCalls |-> r.wetCalls,
                             lineCall |-> r.lineCall,
                             dry      |-> r.dry,
                             wetGain  |-> r.wetGain,
                             dryGain  |-> r.dryGain,
                             afterReconfiguration |->
                                 block.route # "none" /\ block.reconfigured,
                             reconfigured |-> FALSE]
                /\ call' = [op |-> "processBlock"]
                /\ UNCHANGED <<latencySamples, totalNumOutputChannels,
                               currentMaxNumSamplesPerBlock, currentSampleRate>>
                /\ UNCHANGED <<pushed, streamed, delayed>>
                /\ UNCHANGED <<messageVars, settingsVars>>

Next ==
    \/ PrepareToPlay
    \/ NumChannelsChanged
    \/ ProcessBlock

Spec == Init /\ [][Next]_vars

\* ------------------------- the processor in a host that uses long blocks
\* (longer than the bypass ramp) and keeps its sample rate and bus layout,
\* the mono in / mono out layout of createBusLayout
InitMono == Init /\ totalNumOutputChannels = 1

PrepareToPlayLongBlocks == PrepareToPlayBy({48000}, {LongBlockLen}, 0..MaxLatency)

NextLongBlocks ==
    \/ PrepareToPlayLongBlocks
    \/ ProcessBlock

SpecLongBlocks == InitMono /\ [][NextLongBlocks]_vars

\* ------------- the processor in a host that uses blocks of one sample, with
\* a subclass that also reports a new latency while it is running
PrepareToPlayOneSampleBlocks == PrepareToPlayBy({48000}, {1}, 0..MaxLatency)

\* AudioProcessor::setLatencySamples (latency), called by the subclass between
\* two blocks: the value getLatencySamples() returns from then on
SetLatencySamples ==
    \E latency \in 0..MaxLatency :
        /\ latency # latencySamples
        /\ latencySamples' = latency
        /\ block' = interrupted(block)
        /\ call' = [op |-> "setLatencySamples"]
        /\ UNCHANGED <<lastBlockWasBypassed, bypassTempBuffer, buffer,
                       totalNumOutputChannels, currentMaxNumSamplesPerBlock,
                       currentSampleRate>>
        /\ UNCHANGED <<delayLine, pushed, streamed, delayed>>
        /\ UNCHANGED <<messageVars, settingsVars>>

NextLatencyChanges ==
    \/ PrepareToPlayOneSampleBlocks
    \/ NumChannelsChanged
    \/ SetLatencySamples
    \/ ProcessBlock

SpecLatencyChanges == Init /\ [][NextLatencyChanges]_vars

\* ======================================================= claims, delay line
\* the line after pushing the samples of s, in order, into `channel`
RECURSIVE pushAll(_, _, _)
pushAll(dl, s, channel) ==
    IF s = <<>> THEN dl
    ELSE pushAll(push(dl, Head(s), channel), Tail(s), channel)

\* C1: a channel fed only through processBuffer since construction / reset
\* emits, as its i-th output (from 1), 0 for i <= N and the (i-N)-th input
\* after that: the input delayed by exactly the capacity N.
C1_DelayedByCapacity ==
    \A c \in Channels :
        streamed[c] =>
            /\ Len(delayed[c]) = Len(pushed[c])
            /\ \A i \in 1..Len(delayed[c]) :
                   delayed[c][i] = IF i <= delayLine.length THEN 0
                                   ELSE pushed[c][i - delayLine.length]

\* C2: on a single channel line of capacity N, back() read after the k-th
\* push (from 1) returns 0 for k <= N and the (k-N)-th pushed sample after
\* that (capacity 4, pushes 1..6: 0,0,0,0,1,2).
C2_BackAfterPush ==
    (call.op = "back" /\ delayLine.numChannels = 1 /\ Len(pushed[0]) >= 1) =>
        call.result = IF Len(pushed[0]) <= delayLine.length THEN 0
                      ELSE pushed[0][Len(pushed[0]) - delayLine.length]

\* C3: every push on a channel moves that channel's cursor by exactly one
\* position modulo N, wrapping from 0 to N-1.
C3_CursorStepsModuloN ==
    [][call'.op = "push" =>
          delayLine'.indices[call'.channel] =
              (delayLine.indices[call'.channel] - 1) % delayLine.length]_vars

\* C4: processBuffer writes to dest[i] what back(channel) returns once the
\* samples before src[i] have been pushed and src[i] has not.
C4_ReadPrecedesPush ==
    call.op = "processBuffer" =>
        /\ Len(call.dest) = Len(call.src)
        /\ \A i \in 1..Len(call.src) :
               call.dest[i] = back(pushAll(call.before, SubSeq(call.src, 1, i - 1),
                                           call.channel),
                                   call.channel)

C4_Witness ==
    /\ call.op = "processBuffer"
    /\ Len(call.src) >= 2
    /\ call.dest[1] # call.src[1]
    /\ call.dest[2] # call.dest[1]

C6_OtherChannelsUntouched ==
    call'.op \in {"push", "processBuffer"} =>
        \A d \in Channels \ {call'.channel} :
            /\ delayLine'.memory[d]  = delayLine.memory[d]
            /\ delayLine'.indices[d] = delayLine.indices[d]

C6_OwnHistoryOnly ==
    \A c \in Channels :
        back(delayLine, c) =
            back(pushAll(MultichannelDelayLine(delayLine.length, 1), pushed[c], 0), 0)

C6_ChannelIndependence ==
    [][C6_OtherChannelsUntouched]_vars /\ []C6_OwnHistoryOnly

C6_Witness ==
    /\ delayLine.numChannels = 2
    /\ call.op = "push"
    /\ pushed[0] # <<>>
    /\ pushed[1] # <<>>
    /\ back(delayLine, 0) # back(delayLine, 1)

Fades == {"fadeIntoBypass", "fadeIntoWet"}

\* the float 2^-24
TwoToMinus24 == One \div 2^24

Abs(x) == IF x < 0 THEN 0 - x ELSE x

IsPowerOfTwo(n) == \E k \in 0..n : 2^k = n

\* C8: after a block lastBlockWasBypassed is the bypass flag read for it, and
\* a block with a block before it is cross-faded exactly if its flag differs
\* from that block's: into bypass from FALSE to TRUE, into wet from TRUE to FALSE.
C8_FadeOnFlagChange ==
    block.route # "none" =>
        /\ lastBlockWasBypassed = block.bypass
        /\ ~block.first =>
              /\ block.route \in Fades <=> block.bypass # block.bypassBefore
              /\ block.route = "fadeIntoBypass" <=> (~block.bypassBefore /\ block.bypass)
              /\ block.route = "fadeIntoWet" <=> (block.bypassBefore /\ ~block.bypass)

C8_Witness ==
    /\ block.route = "fadeIntoWet"
    /\ ~block.first
    /\ block.bypassBefore
    /\ ~block.bypass
    /\ ~lastBlockWasBypassed

\* C9: in a transition block longer than the ramp, every sample from the
\* ramp length on carries the target signal alone: wet gain 0 and dry gain 1
\* when fading into bypass, wet gain 1 and dry gain 0 when fading into wet.
C9_TailIsTargetOnly ==
    block.route \in Fades =>
        \A i \in (bypassRampLen + 1)..numSamplesOf(block.input) :
            /\ block.wetGain[i] = IF block.route = "fadeIntoBypass" THEN 0 ELSE One
            /\ block.dryGain[i] = IF block.route = "fadeIntoBypass" THEN One ELSE 0
            /\ \A c \in DOMAIN buffer :
                   buffer[c][i] = IF block.route = "fadeIntoBypass"
                                  THEN block.dry[c][i] ELSE block.wet[c][i]

\* the gains at the first sample of a transition block, and each sample of
\* the ramp as the float sum of the wet and the dry sample times their gains
RampStartAndMix ==
    /\ block.wetGain[1] = IF block.route = "fadeIntoBypass" THEN One ELSE 0
    /\ block.dryGain[1] = IF block.route = "fadeIntoBypass" THEN 0 ELSE One
    /\ \A c \in DOMAIN buffer :
         \A i \in 1..Min(numSamplesOf(block.input), bypassRampLen) :
             buffer[c][i] = floatAdd(floatMul(block.wet[c][i], block.wetGain[i]),
                                     floatMul(block.dry[c][i], block.dryGain[i]))

\* C10 as claimed: at every sample of the ramp of a transition block the wet
\* and the dry gain sum to exactly 1; at the first they are (1, 0) into
\* bypass and (0, 1) into wet; the output is the sum of the scaled signals.
C10_GainsSumToExactlyOne ==
    block.route \in Fades =>
        /\ RampStartAndMix
        /\ \A i \in 1..Min(numSamplesOf(block.input), bypassRampLen) :
               block.wetGain[i] + block.dryGain[i] = One

\* C10 as amended: at the sample with index i (from 0) of the ramp the wet and
\* the dry gain sum to 1 within i * 2^-24, and to exactly 1 when the ramp
\* length is a power of two; the rest as claimed.
C10_GainsSumToOneRounded ==
    block.route \in Fades =>
        /\ RampStartAndMix
        /\ \A i \in 1..Min(numSamplesOf(block.input), bypassRampLen) :
               /\ Abs(block.wetGain[i] + block.dryGain[i] - One) <= (i - 1) * TwoToMinus24
               /\ IsPowerOfTwo(Min(numSamplesOf(block.input), bypassRampLen)) =>
                      block.wetGain[i] + block.dryGain[i] = One

C10_Witness ==
    /\ block.route = "fadeIntoBypass"
    /\ numSamplesOf(block.input) = 3
    /\ block.wetGain[2] + block.dryGain[2] = One - 2
    /\ block.wet[0][2] = One
    /\ block.dry[0][2] = One
    /\ buffer[0][2] = One

\* ------------------------------------------- claims about one block's step
\* the step from the state a block arrives in to the state it leaves: the
\* reconfigurations mark `block`, a block clears the mark
BlockProcessed == block'.route # "none" /\ ~block'.reconfigured

\* what a line writes to dest, and what it is afterwards, when fed `input`
lineFed(dl, input) == delayLineProcessBlock(dl, input, input)

C12_DryDelayedByLatency ==
    [][(/\ BlockProcessed
        /\ delayLine # nullptr
        /\ \/ block'.route = "fadeIntoBypass"
           \/ /\ block'.route = "bypassedDelayed"
              /\ block.route = "fadeIntoBypass"
              /\ ~block.reconfigured) =>
          LET N      == delayLine.length
              dry    == IF block'.route = "fadeIntoBypass" THEN block'.dry ELSE buffer'
              before == IF block'.route = "fadeIntoBypass" THEN <<>>
                        ELSE block.input
              stream == [c \in DOMAIN block'.input |->
                            [i \in 1..N |-> 0]
                                \o (IF before = <<>> THEN <<>> ELSE before[c])
                                \o block'.input[c]]
          IN  /\ N = latencySamples
              /\ \A c \in DOMAIN block'.input :
                   \A i \in 1..Len(block'.input[c]) :
                       dry[c][i] = stream[c][Len(stream[c]) - Len(block'.input[c])
                                             + i - N]]_vars

\* C13: a bypassed block after a bypassed block, with a delay line: the block
\* is fed to the line and leaves as what the line wrote for it, sample for
\* sample, and the subclass's processBlock is not run.
C13_SteadyBypassThroughLine ==
    [][(BlockProcessed /\ lastBlockWasBypassed /\ block'.bypass /\ delayLine # nullptr) =>
          LET viaLine == lineFed(delayLine, block'.input)
          IN  /\ block'.route = "bypassedDelayed"
              /\ buffer' = viaLine.dest
              /\ delayLine' = viaLine.line
              /\ block'.wetCalls = 0]_vars

C13_Witness ==
    /\ block.route = "bypassedDelayed"
    /\ ~block.reconfigured
    /\ block.previous
    /\ block.bypass
    /\ block.wetCalls = 0
    /\ block.input[0] = <<0, One>>
    /\ buffer[0] = <<One, 0>>

\* C14: a bypassed block after a bypassed block, without a delay line: the
\* block leaves as it came, the subclass's processBlock is not run and the
\* scratch buffer stays as it was.
C14_SteadyBypassUntouched ==
    [][(BlockProcessed /\ lastBlockWasBypassed /\ block'.bypass /\ delayLine = nullptr) =>
          /\ block'.route = "bypassedThrough"
          /\ buffer' = block'.input
          /\ block'.wetCalls = 0
          /\ bypassTempBuffer' = bypassTempBuffer
          /\ delayLine' = nullptr]_vars

C14_Witness ==
    /\ block.route = "bypassedThrough"
    /\ ~block.reconfigured
    /\ block.previous
    /\ block.bypass
    /\ delayLine = nullptr
    /\ buffer = block.input
    /\ block.input[0] = <<0, One>>
    /\ bypassTempBuffer # <<>>
    /\ bypassTempBuffer[0] = <<0, One \div 2>>

\* C15: a wet block after a wet block: the subclass's processBlock runs once
\* and its result is the output; the delay line, the scratch buffer and
\* lastBlockWasBypassed stay as they were.
C15_SteadyWetOnly ==
    [][(BlockProcessed /\ ~lastBlockWasBypassed /\ ~block'.bypass) =>
          /\ block'.route = "wet"
          /\ block'.wetCalls = 1
          /\ buffer' = block'.wet
          /\ delayLine' = delayLine
          /\ bypassTempBuffer' = bypassTempBuffer
          /\ lastBlockWasBypassed' = lastBlockWasBypassed]_vars

C15_Witness ==
    /\ block.route = "wet"
    /\ ~block.reconfigured
    /\ ~block.previous
    /\ ~block.bypass
    /\ block.wetCalls = 1
    /\ delayLine # nullptr
    /\ delayLine.memory[0][0] = One
    /\ block.input[0] = <<0, 0>>
    /\ block.wet[0] = <<One, One>>
    /\ buffer = block.wet

\* C16: whatever the previous flag, the current flag and the delay line, a
\* block runs the subclass's processBlock at most once, and exactly once when
\* it is a steady wet block or a transition block of either direction.
C16_WetAtMostOnce ==
    block.route # "none" =>
        /\ block.wetCalls \in {0, 1}
        /\ (~block.bypass \/ block.previous # block.bypass) => block.wetCalls = 1

C16_Witness ==
    /\ block.route = "fadeIntoBypass"
    /\ ~block.reconfigured
    /\ ~block.previous
    /\ block.bypass
    /\ delayLine # nullptr
    /\ block.wetCalls = 1
    /\ block.wet # block.input

\* C17: in a transition block the dry signal, the scratch buffer and the
\* delay line after the block are determined by the block as received and the
\* line as it was: the input copied (no line) or run through the line (reset
\* first when fading into bypass), then ramped; the wet result is not in them.
C17_DryFromPreWetInput ==
    [][(BlockProcessed /\ block'.route \in Fades) =>
          LET intoBypass == block'.route = "fadeIntoBypass"
              viaLine == lineFed(IF intoBypass THEN reset(delayLine) ELSE delayLine,
                                 block'.input)
              dry     == IF delayLine = nullptr THEN block'.input ELSE viaLine.dest
          IN  /\ block'.dry = dry
              /\ delayLine' = IF delayLine = nullptr THEN nullptr ELSE viaLine.line
              /\ bypassTempBuffer' =
                     applyGainRamp(dry, 0, Min(numSamplesOf(dry), bypassRampLen),
                                   IF intoBypass THEN 0 ELSE One,
                                   IF intoBypass THEN One ELSE 0)]_vars

C17_Witness ==
    /\ block.route = "fadeIntoWet"
    /\ ~block.reconfigured
    /\ delayLine # nullptr
    /\ block.input[0] = <<One, One>>
    /\ block.wet[0] = <<0, 0>>
    /\ block.dry[0][2] = One
    /\ delayLine.memory[0][0] = One
    /\ bypassTempBuffer[0][1] = One

\* C18: in a transition block without a delay line the dry signal is the
\* block as received, and every output sample is the wet sample times the
\* ramp from the start gain to the end gain plus the received sample times
\* the ramp from the end gain to the start gain.
C18_ZeroLatencyBlend ==
    (block.route \in Fades /\ ~block.reconfigured /\ delayLine = nullptr) =>
        LET a == IF block.route = "fadeIntoBypass" THEN One ELSE 0
            b == IF block.route = "fadeIntoBypass" THEN 0 ELSE One
            L == numSamplesOf(block.input)
        IN  /\ latencySamples = 0
            /\ block.dry = block.input
            /\ block.wetGain = gainsOfRamp(L, a, b)
            /\ block.dryGain = gainsOfRamp(L, b, a)
            /\ \A c \in DOMAIN buffer :
                 \A i \in 1..L :
                     buffer[c][i] =
                         floatAdd(floatMul(block.wet[c][i], block.wetGain[i]),
                                  floatMul(block.input[c][i], block.dryGain[i]))

C18_Witness ==
    /\ block.route = "fadeIntoBypass"
    /\ ~block.reconfigured
    /\ delayLine = nullptr
    /\ numSamplesOf(block.input) = 4
    /\ block.input[0] = <<One, One, One, One>>
    /\ block.wet[0] = <<0, 0, 0, 0>>
    /\ block.dry[0][1] = One
    /\ buffer[0][3] = block.dryGain[3]
    /\ buffer[0][3] > 0
    /\ buffer[0][3] < One

\* C19: the gains of a transition block of L samples move from the start gain
\* towards the end gain by 1/min(L, R) per sample over its first min(L, R)
\* samples (within binary32 rounding), and a block whose bypass flag is that
\* of the block before it gets no gain at all: its output is the wet result,
\* the block as received or the delay line's output for it.
C19_RampSpan ==
    block.route \in Fades =>
        LET n == Min(numSamplesOf(block.input), bypassRampLen)
            a == IF block.route = "fadeIntoBypass" THEN One ELSE 0
            b == IF block.route = "fadeIntoBypass" THEN 0 ELSE One
        IN  \A i \in 1..n :
                /\ Abs(n * block.wetGain[i] - (n * a + (i - 1) * (b - a)))
                       <= n * (i - 1) * TwoToMinus24
                /\ Abs(n * block.dryGain[i] - (n * b + (i - 1) * (a - b)))
                       <= n * (i - 1) * TwoToMinus24

C19_NoRampCarriedOver ==
    (BlockProcessed /\ block.route # "none" /\ block'.bypass = block.bypass) =>
        /\ block'.route \notin Fades
        /\ block'.wetGain = <<>>
        /\ buffer' = IF ~block'.bypass THEN block'.wet
                     ELSE IF delayLine = nullptr THEN block'.input
                     ELSE lineFed(delayLine, block'.input).dest

C19_RampWithinTransitionBlock ==
    []C19_RampSpan /\ [][C19_NoRampCarriedOver]_vars

C19_Witness ==
    /\ block.route = "fadeIntoBypass"
    /\ ~block.reconfigured
    /\ numSamplesOf(block.input) = 2
    /\ block.wetGain = <<One, One \div 2>>
    /\ block.dryGain = <<0, One \div 2>>
    /\ block.wet[0] = <<One, One>>
    /\ block.input[0] = <<0, 0>>
    /\ buffer[0] = <<One, One \div 2>>

\* C20: whenever a block can start, a delay line exists exactly if the
\* reported latency is greater than 0, and then its capacity is the reported
\* latency and its channel count the current channel count.
C20_LineMatchesLatency ==
    currentMaxNumSamplesPerBlock > 0 =>
        /\ delayLine # nullptr <=> latencySamples > 0
        /\ delayLine # nullptr =>
              /\ delayLine.length = latencySamples
              /\ delayLine.numChannels = totalNumOutputChannels


\* ======================================= claims, reconfiguration and set-up
\* the state right after prepareToPlay or numChannelsChanged has returned
Reconfigured == call.op \in {"prepareToPlay", "numChannelsChanged"}

\* C21: right after prepareToPlay or numChannelsChanged has returned, a delay
\* line exists exactly when the latency reported at that moment is non-zero;
\* it is then a new, zero-filled line of that capacity with one channel per
\* output channel. With a latency of 0 there is no line.
C21_LineRebuiltOnReconfiguration ==
    Reconfigured =>
        /\ (delayLine # nullptr) <=> (latencySamples # 0)
        /\ latencySamples # 0 =>
               /\ delayLine.length = latencySamples
               /\ delayLine.numChannels = totalNumOutputChannels
               /\ DOMAIN delayLine.memory = 0..(totalNumOutputChannels - 1)
               /\ \A c \in DOMAIN delayLine.memory :
                      /\ DOMAIN delayLine.memory[c] = 0..(latencySamples - 1)
                      /\ \A i \in DOMAIN delayLine.memory[c] :
                             delayLine.memory[c][i] = 0
                      /\ delayLine.indices[c] = 0

\* a stereo line of capacity 2 built by a reconfiguration that followed a
\* block which had filled the line before it
C21_Witness ==
    /\ Reconfigured
    /\ block.route = "bypassedDelayed"
    /\ block.input[0] = <<One, One>>
    /\ latencySamples = 2
    /\ totalNumOutputChannels = 2
    /\ delayLine = MultichannelDelayLine(2, 2)

\* what a reconfiguration hands to prepareResources, and what it builds after
\* prepareResources has returned: prepareToPlay passes false as the third
\* flag and has stored the new sample rate and block size before the call;
\* numChannelsChanged passes (false, false, true); the delay line is built
\* from the latency prepareResources reported in this very call
C28_HookArguments ==
    Reconfigured =>
        /\ call.op = "prepareToPlay" =>
               /\ ~call.prepareResources.numChannelsChanged
               /\ call.prepareResources.sampleRate = currentSampleRate
               /\ call.prepareResources.maxNumSamplesPerBlock
                      = currentMaxNumSamplesPerBlock
        /\ call.op = "numChannelsChanged" =>
               /\ ~call.prepareResources.sampleRateChanged
               /\ ~call.prepareResources.maxBlockSizeChanged
               /\ call.prepareResources.numChannelsChanged
        /\ latencySamples = call.latency
        /\ delayLine.length = call.latency

\* in a prepareToPlay step each of the two flags is true exactly when the new
\* value differs from the one stored before the call
C28_FlagsTellChanges ==
    call'.op = "prepareToPlay" =>
        /\ call'.prepareResources.sampleRateChanged
               <=> (currentSampleRate' # currentSampleRate)
        /\ call'.prepareResources.maxBlockSizeChanged
               <=> (currentMaxNumSamplesPerBlock' # currentMaxNumSamplesPerBlock)

\* C28: both reconfiguration callbacks call prepareResources before they
\* rebuild the delay line, so that the line is sized from the latency
\* prepareResources reported. prepareToPlay passes (sampleRateChanged,
\* maxBlockSizeChanged, false), each flag true exactly when the new value
\* differs from the stored one, and stores the new values before the call;
\* numChannelsChanged passes (false, false, true).
C28_PrepareResourcesFirst ==
    []C28_HookArguments /\ [][C28_FlagsTellChanges]_vars

\* a prepareToPlay between blocks that kept the sample rate, changed the
\* block size and met a subclass that reported a latency of 2
C28_Witness ==
    /\ call.op = "prepareToPlay"
    /\ block.route # "none"
    /\ ~call.prepareResources.sampleRateChanged
    /\ call.prepareResources.maxBlockSizeChanged
    /\ call.latency = 2
    /\ delayLine = MultichannelDelayLine(2, totalNumOutputChannels)

\* C29: the first block after construction, when bypass is not requested for
\* it, is processed by the subclass's processBlock alone, without a crossfade:
\* the previous-bypass flag starts out false.
C29_FirstBlockWetOnly ==
    (block.route # "none" /\ block.first /\ ~block.bypass) =>
        /\ ~block.previous
        /\ block.route = "wet"
        /\ block.dry = <<>>
        /\ buffer = block.wet

\* C27: whenever the processor calls the delay line, the source (the host's
\* block) and the destination (the scratch buffer) are different buffers, and
\* the scratch buffer has been resized to exactly the block's channel count
\* and length before the call, whatever the sizes of the blocks before it.
C27_ScratchDistinctAndSized ==
    block.route # "none" =>
        /\ ~block.reconfigured =>
               ((block.lineCall # noLineCall) <=>
                    /\ delayLine # nullptr
                    /\ block.route \in Fades \cup {"bypassedDelayed"})
        /\ block.lineCall # noLineCall =>
               /\ block.lineCall.src = "buffer"
               /\ block.lineCall.dest = "bypassTempBuffer"
               /\ block.lineCall.src # block.lineCall.dest
               /\ numChannelsOf(block.lineCall.scratch) = numChannelsOf(block.input)
               /\ numSamplesOf(block.lineCall.scratch) = numSamplesOf(block.input)

\* a stereo block of one sample, shorter than the prepared maximum of two,
\* that went through the delay line in steady bypass
C27_Witness ==
    /\ block.route = "bypassedDelayed"
    /\ ~block.reconfigured
    /\ totalNumOutputChannels = 2
    /\ currentMaxNumSamplesPerBlock = 2
    /\ numSamplesOf(block.input) = 1
    /\ block.lineCall.dest = "bypassTempBuffer"
    /\ numChannelsOf(block.lineCall.scratch) = 2
    /\ numSamplesOf(block.lineCall.scratch) = 1

\* C30: for a line of capacity N >= 1, after any sequence of push, back,
\* processBuffer, processBlock and reset on valid channels, every channel's
\* cursor lies in 0..N-1: every read and write addresses a slot of the buffer.
C30_CursorInRange ==
    \A c \in Channels :
        /\ delayLine.indices[c] \in 0..(delayLine.length - 1)
        /\ delayLine.indices[c] \in DOMAIN delayLine.memory[c]

\* a line of capacity 3 whose channel 0 has just taken its third push
C30_Witness ==
    /\ call.op = "push"
    /\ call.channel = 0
    /\ delayLine.length = 3
    /\ Len(pushed[0]) = 3
    /\ delayLine.indices[0] \in 0..2

\* ============================== claims, the line's history across blocks
\* in a block's step delayLine->reset() is called exactly if the flag at entry
\* is false, bypass is requested and a line exists; the line afterwards is the
\* reset line fed the block, the line as it was fed the block, or the line as
\* it was, according to whether it was reset, called without, or not called
C31_ResetIffIntoBypass ==
    BlockProcessed =>
        /\ block'.lineCall.reset
               <=> (~lastBlockWasBypassed /\ block'.bypass /\ delayLine # nullptr)
        /\ block'.lineCall.reset =>
               delayLine' = lineFed(reset(delayLine), block'.input).line
        /\ (~block'.lineCall.reset /\ block'.lineCall # noLineCall) =>
               delayLine' = lineFed(delayLine, block'.input).line
        /\ block'.lineCall = noLineCall => delayLine' = delayLine

\* the lines of the capacity and channel count of dl whose slots hold input
\* samples: what a line may hold before a block is fed to it
LinesLike(dl) ==
    {[memory |-> m, indices |-> idx, length |-> dl.length,
      numChannels |-> dl.numChannels] :
        m   \in [0..(dl.numChannels - 1) -> [0..(dl.length - 1) -> Samples]],
        idx \in [0..(dl.numChannels - 1) -> 0..(dl.length - 1)]}

\* two blocks one after the other, as one block
joined(first, second) == [c \in DOMAIN first |-> first[c] \o second[c]]

\* in a bypass->wet transition block with a line, the dry signal is what the
\* line as the block before left it writes for the block. After a block that
\* went through the line in bypass, that block's dry signal followed by this
\* block's is what one line writes when fed the two blocks as one stream.
C31_HistoryKeptIntoWet ==
    (BlockProcessed /\ lastBlockWasBypassed /\ ~block'.bypass /\ delayLine # nullptr) =>
        LET viaLine == lineFed(delayLine, block'.input)
        IN  /\ block'.route = "fadeIntoWet"
            /\ block'.dry = viaLine.dest
            /\ delayLine' = viaLine.line
            /\ (block.route \in {"fadeIntoBypass", "bypassedDelayed"}
                    /\ ~block.reconfigured) =>
                  LET dryBefore == IF block.route = "fadeIntoBypass"
                                   THEN block.dry ELSE buffer
                  IN  \E before \in LinesLike(delayLine) :
                          /\ lineFed(before, block.input)
                                 = [line |-> delayLine, dest |-> dryBefore]
                          /\ lineFed(before, joined(block.input, block'.input)).dest
                                 = joined(dryBefore, block'.dry)

\* C31: the controller resets the delay line in a block exactly if the block
\* is a wet->bypass transition block and a delay line exists; in a
\* bypass->wet transition block the line keeps its history, so that the dry
\* signal faded out there continues the delayed stream of the bypassed blocks
\* before it without a gap.
C31_ResetOnlyIntoBypass ==
    [][C31_ResetIffIntoBypass /\ C31_HistoryKeptIntoWet]_vars

\* a silent block faded back into the wet signal whose dry signal starts with
\* a sample the line had taken in the bypassed block before it
C31_Witness ==
    /\ block.route = "fadeIntoWet"
    /\ ~block.reconfigured
    /\ ~block.first
    /\ delayLine # nullptr
    /\ ~block.lineCall.reset
    /\ block.input[0] = <<0, 0>>
    /\ block.dry[0][1] = One

\* a prepareToPlay or numChannelsChanged step leaves lastBlockWasBypassed as
\* it was
C32_FlagKept ==
    call'.op \in {"prepareToPlay", "numChannelsChanged"} =>
        lastBlockWasBypassed' = lastBlockWasBypassed

\* a block right after a reconfiguration that followed a block: the flag it
\* meets is the bypass flag of that block, it is cross-faded exactly if its
\* own flag differs from it, and a bypassed block after a bypassed block is
\* not cross-faded and does not run the subclass's processBlock: with a
\* latency it leaves as what the new, zero-filled line writes for it, without
\* one (no line) as it came
C32_BlockAfterReconfiguration ==
    (BlockProcessed /\ Reconfigured /\ block.route # "none") =>
        /\ block'.afterReconfiguration
        /\ lastBlockWasBypassed = block.bypass
        /\ block'.previous = block.bypass
        /\ (block'.route \in Fades) <=> (block'.bypass # block.bypass)
        /\ (block.bypass /\ block'.bypass) =>
              /\ block'.wetCalls = 0
              /\ block'.dry = <<>>
              /\ ~block'.lineCall.reset
              /\ IF latencySamples # 0
                 THEN LET new == MultichannelDelayLine(latencySamples,
                                                       totalNumOutputChannels)
                      IN  /\ delayLine = new
                          /\ block'.route = "bypassedDelayed"
                          /\ buffer' = lineFed(new, block'.input).dest
                          /\ delayLine' = lineFed(new, block'.input).line
                 ELSE /\ delayLine = nullptr
                      /\ block'.route = "bypassedThrough"
                      /\ buffer' = block'.input

\* C32: reconfiguration (prepareToPlay, numChannelsChanged) leaves the
\* previous-bypass flag unchanged: a block that follows a reconfiguration is
\* classified as steady-state or transition by comparing its bypass flag with
\* the flag of the last block processed before the reconfiguration, so that a
\* reconfiguration during bypass is followed by a steady-state bypass block
\* (no crossfade) which, when a latency is reported, reads from the newly
\* allocated, zero-filled delay line.
C32_FlagSurvivesReconfiguration ==
    [][C32_FlagKept /\ C32_BlockAfterReconfiguration]_vars

\* a bypassed block of two samples 1.0f after a reconfiguration during
\* bypass: it left without a crossfade as what a zero-filled line writes
C32_Witness ==
    /\ block.route = "bypassedDelayed"
    /\ block.afterReconfiguration
    /\ ~block.reconfigured
    /\ block.bypassBefore
    /\ block.previous
    /\ block.bypass
    /\ block.wetCalls = 0
    /\ block.input[0] = <<One, One>>
    /\ buffer[0] = <<0, One>>


\* ======================================================= MessageOfTheDay.h
\* An int64_t is kept as its two 32-bit halves: hi, the upper half read as a
\* signed number, and lo, the int that has the bits of the lower half. The
\* value is hi * 2^32 + (lo read as unsigned).
IntMax == 2147483647

IntMin == (0 - IntMax) - 1

int64(hi, lo) == [hi |-> hi, lo |-> lo]

\* a < b for two lower halves read as unsigned numbers
lowerHalfLess(a, b) == IF (a < 0) = (b < 0) THEN a < b ELSE b < 0

\* a > b on int64_t
greater(a, b) == a.hi > b.hi \/ (a.hi = b.hi /\ lowerHalfLess(b.lo, a.lo))

\* the conversion of an int64_t to int: the value modulo 2^32, i.e. the lower half
narrowToInt(v) == v.lo

\* the conversion of an int to int64_t: sign extension
widenToInt64(x) == int64(IF x < 0 THEN 0 - 1 ELSE 0, x)

\* juce::var as the JSON parser makes it: void, an integer, a string or an
\* object with named properties
voidVar == [kind |-> "void"]

int64Var(v) == [kind |-> "int64", value |-> v]

stringVar(str) == [kind |-> "string", value |-> str]

objectVar(properties) == [kind |-> "object", properties |-> properties]

isVoid(v) == v.kind = "void"

hasProperty(v, name) == v.kind = "object" /\ name \in DOMAIN v.properties

\* var::getProperty (name, defaultReturnValue)
getProperty(v, name, defaultReturnValue) ==
    IF hasProperty(v, name) THEN v.properties[name] ELSE defaultReturnValue

\* var::operator int64: the number itself; 0 for void
toInt64(v) == IF v.kind = "int64" THEN v.value ELSE int64(0, 0)

\* var::toString: the string itself; empty for void
toString(v) == IF v.kind = "string" THEN v.value ELSE ""

\* makeMessage (version, v): a std::unique_ptr<Message>, here a sequence of
\* one Message (a null pointer is the empty sequence)
makeMessage(version, v) ==
    <<[version |-> version,
       text    |-> toString(getProperty(v, "Text", voidVar)),
       link    |-> toString(getProperty(v, "Link", voidVar))]>>

\* InfoAndUpdate(): both pointers null
InfoAndUpdate == [generalMessage |-> <<>>, updateMessage |-> <<>>]

\* mutant of updateMessageOf: a version equal to the plugin's counts as an update
updateMessageOfSameVersion(update, currentPluginVersion) ==
    IF isVoid(update) THEN <<>>
    ELSE LET updateVersion ==
                 toInt64(getProperty(update, "Version", int64Var(currentPluginVersion)))
         IN  IF /\ ~greater(currentPluginVersion, updateVersion)
                /\ hasProperty(update, "Text")
                /\ hasProperty(update, "Link")
             THEN makeMessage(updateVersion, update)
             ELSE <<>>

\* lines 106-111: messages.updateMessage
updateMessageOf(update, currentPluginVersion) ==
    IF isVoid(update) THEN <<>>
    ELSE LET updateVersion ==
                 toInt64(getProperty(update, "Version", int64Var(currentPluginVersion)))
         IN  IF /\ greater(updateVersion, currentPluginVersion)
                /\ hasProperty(update, "Text")
                /\ hasProperty(update, "Link")
             THEN makeMessage(updateVersion, update)
             ELSE <<>>

\* lines 113-118: messages.generalMessage; generalMessageVersion is an int
generalMessageOf(general, lastVersion) ==
    IF isVoid(general) THEN <<>>
    ELSE LET generalMessageVersion ==
                 narrowToInt(toInt64(getProperty(general, "Version",
                                                 int64Var(lastVersion))))
         IN  IF /\ greater(widenToInt64(generalMessageVersion), lastVersion)
                /\ hasProperty(general, "Text")
             THEN makeMessage(widenToInt64(generalMessageVersion), general)
             ELSE <<>>

\* what url.createInputStream (false) returns when the server cannot be reached
noStream == [open |-> FALSE]

\* juce::JSON::parse (stream): the document, or void when the text is no JSON
parse(stream) == IF stream.wellFormed THEN stream.document ELSE voidVar

\* lines 95-121: what the thread hands to set_value once it has a stream
messagesOf(stream, currentPluginVersion, lastVersion) ==
    LET json == parse(stream)
    IN  IF isVoid(json) THEN InfoAndUpdate
        ELSE [generalMessage |-> generalMessageOf(getProperty(json, "GeneralMessage", voidVar),
                                                  lastVersion),
              updateMessage  |-> updateMessageOf(getProperty(json, "Update", voidVar),
                                                 currentPluginVersion)]

\* mutant of set_value: the thread stores an exception in the shared state
set_exception(shared, value) ==
    [shared EXCEPT !.state = "exception", !.setValueCalls = @ + 1]

\* std::promise::set_value
set_value(shared, value) ==
    [shared EXCEPT !.state = "ready", !.value = value, !.setValueCalls = @ + 1]

\* the plugin versions of the model: 5 and 2^32
PluginVersions == {int64(0, 5), int64(1, 0)}

\* the lastGeneralMessageVersion values of the model: 0, 5 and 2^32 + 5
LastVersions == {int64(0, 0), int64(0, 5), int64(1, 5)}

\* the Version numbers the server sends: 0, 5, 6, 2^31 - 1, 2^31, 2^32,
\* 2^32 + 6, -1 and -2^32 + 6
ServerVersions ==
    {int64(0, 0), int64(0, 5), int64(0, 6), int64(0, IntMax), int64(0, IntMin),
     int64(1, 0), int64(1, 6), int64(0 - 1, 0 - 1), int64(0 - 1, 6)}

\* the functions from a subset of `names` to values, each name with its own values
RECURSIVE PropertiesOver(_, _)
PropertiesOver(names, valuesOf) ==
    IF names = {} THEN {<<>>}
    ELSE LET name == CHOOSE n \in names : TRUE
             rest == PropertiesOver(names \ {name}, valuesOf)
         IN  rest \cup {(name :> v) @@ r : v \in valuesOf[name], r \in rest}

\* an Update or GeneralMessage field as the server sends it: a string, or an
\* object with any of Version, Text and Link
MessageFields ==
    {stringVar("soon")} \cup
    {objectVar(properties) :
        properties \in PropertiesOver({"Version", "Text", "Link"},
                                      [Version |-> {int64Var(v) : v \in ServerVersions},
                                       Text    |-> {stringVar("text")},
                                       Link    |-> {stringVar("link")}])}

\* what the server answers: text that is no JSON, or a JSON document: null, a
\* string, or an object with any of Update and GeneralMessage
Streams ==
    {[open |-> TRUE, wellFormed |-> FALSE]} \cup
    {[open |-> TRUE, wellFormed |-> TRUE, document |-> d] :
        d \in {voidVar, stringVar("soon")} \cup
              {objectVar(properties) :
                  properties \in PropertiesOver({"Update", "GeneralMessage"},
                                                [Update         |-> MessageFields,
                                                 GeneralMessage |-> MessageFields])}}

\* the processor and the settings stay out of it
InitMessages ==
    /\ IdleProcessor
    /\ NoSettingsManager
    /\ delayLine = nullptr
    /\ pushed    = <<>>
    /\ streamed  = <<>>
    /\ delayed   = <<>>
    /\ call      = [op |-> "construct"]
    /\ \E pluginVersion \in PluginVersions :
           messageOfTheDay = [constructed |-> TRUE,
                              currentPluginVersion |-> pluginVersion]
    /\ thread = [pc |-> "none"]
    /\ future = [state |-> "none"]

messageIdle == <<delayLine, pushed, streamed, delayed, call, processorVars, settingsVars>>

\* mutant of CheckForNewMessages: the promise is not moved into the thread's
\* lambda and is destroyed, without a value, when checkForNewMessages returns:
\* the shared state holds a broken_promise error
CheckForNewMessagesKeepsPromise ==
    /\ thread.pc \in {"none", "returned"}
    /\ \E lastGeneralMessageVersion \in LastVersions :
           thread' = [pc |-> "started", lastVersion |-> lastGeneralMessageVersion,
                      stream |-> noStream]
    /\ future' = [state |-> "broken_promise", value |-> InfoAndUpdate,
                  setValueCalls |-> 0]
    /\ UNCHANGED messageOfTheDay
    /\ UNCHANGED messageIdle

\* checkForNewMessages (lastGeneralMessageVersion): the promise and its future
\* are made and the detached thread is started (one check at a time)
CheckForNewMessages ==
    /\ thread.pc \in {"none", "returned"}
    /\ \E lastGeneralMessageVersion \in LastVersions :
           thread' = [pc |-> "started", lastVersion |-> lastGeneralMessageVersion,
                      stream |-> noStream]
    /\ future' = [state |-> "pending", value |-> InfoAndUpdate, setValueCalls |-> 0]
    /\ UNCHANGED messageOfTheDay
    /\ UNCHANGED messageIdle

\* the thread: url.createInputStream (false)
ThreadCreateInputStream ==
    /\ thread.pc = "started"
    /\ \E stream \in Streams \cup {noStream} :
           thread' = [thread EXCEPT !.pc = IF stream.open THEN "streamOpen" ELSE "noStream",
                                    !.stream = stream]
    /\ UNCHANGED <<messageOfTheDay, future>>
    /\ UNCHANGED messageIdle

\* the thread with a stream: lines 95-121, up to its return
ThreadAnswers ==
    /\ thread.pc = "streamOpen"
    /\ future' = set_value(future, messagesOf(thread.stream,
                                              messageOfTheDay.currentPluginVersion,
                                              thread.lastVersion))
    /\ thread' = [thread EXCEPT !.pc = "returned"]
    /\ UNCHANGED messageOfTheDay
    /\ UNCHANGED messageIdle

\* the thread without a stream: lines 124-125
ThreadGivesUp ==
    /\ thread.pc = "noStream"
    /\ future' = set_value(future, InfoAndUpdate)
    /\ thread' = [thread EXCEPT !.pc = "returned"]
    /\ UNCHANGED messageOfTheDay
    /\ UNCHANGED messageIdle

NextMessages ==
    \/ CheckForNewMessages
    \/ ThreadCreateInputStream
    \/ ThreadAnswers
    \/ ThreadGivesUp

SpecMessages == InitMessages /\ [][NextMessages]_vars

\* The same under fair scheduling of the thread: the std::thread of line 90
\* is detached and runs on its own, so each of its steps that is possible is
\* taken in the end (createInputStream returns, with a stream or without).
\* Nothing obliges the caller to call checkForNewMessages again.
SpecMessagesFair ==
    /\ SpecMessages
    /\ WF_vars(ThreadCreateInputStream)
    /\ WF_vars(ThreadAnswers)
    /\ WF_vars(ThreadGivesUp)

\* -------------------------------------------------- claims, MessageOfTheDay
\* the thread has returned after it got a JSON object from the server
Answered ==
    /\ thread.pc = "returned"
    /\ thread.stream.open
    /\ thread.stream.wellFormed
    /\ thread.stream.document.kind = "object"

\* the Update / GeneralMessage field of the server's answer
serverField(name) == getProperty(thread.stream.document, name, voidVar)

\* C22: checkForNewMessages yields an update message only if the server's
\* Update object has a Version strictly greater than the plugin version given
\* at construction, and has both Text and Link; the message carries that
\* version. An Update without Version, or with a Version <= the plugin
\* version, yields none.
C22_UpdateOnlyIfNewer ==
    (thread.pc = "returned" /\ future.value.updateMessage # <<>>) =>
        /\ Answered
        /\ hasProperty(serverField("Update"), "Version")
        /\ greater(serverField("Update").properties["Version"].value,
                   messageOfTheDay.currentPluginVersion)
        /\ hasProperty(serverField("Update"), "Text")
        /\ hasProperty(serverField("Update"), "Link")
        /\ future.value.updateMessage[1].version
               = serverField("Update").properties["Version"].value

\* an update to version 2^32 + 6 announced to a plugin of version 2^32
C22_Witness ==
    /\ Answered
    /\ messageOfTheDay.currentPluginVersion = int64(1, 0)
    /\ future.state = "ready"
    /\ future.value.updateMessage
           = <<[version |-> int64(1, 6), text |-> "text", link |-> "link"]>>

\* C23: checkForNewMessages yields a general message only if the server's
\* GeneralMessage Version, as a 64-bit integer, is strictly greater than the
\* lastGeneralMessageVersion passed in, for every 64-bit Version; the version
\* field of the message equals the server's Version.
C23_GeneralOnlyIfNewer ==
    (thread.pc = "returned" /\ future.value.generalMessage # <<>>) =>
        /\ Answered
        /\ hasProperty(serverField("GeneralMessage"), "Version")
        /\ greater(serverField("GeneralMessage").properties["Version"].value,
                   thread.lastVersion)
        /\ future.value.generalMessage[1].version
               = serverField("GeneralMessage").properties["Version"].value

\* C24: when the server cannot be reached (no stream) or its answer is no
\* JSON, the future is fulfilled with an InfoAndUpdate whose two messages are
\* both null; no exception is stored in it.
C24_NoAnswerNoMessages ==
    (thread.pc = "returned" /\ (~thread.stream.open \/ ~thread.stream.wellFormed)) =>
        /\ future.state = "ready"
        /\ future.setValueCalls = 1
        /\ future.value.generalMessage = <<>>
        /\ future.value.updateMessage = <<>>

\* the thread has returned after an answer that is no JSON
C24_Witness ==
    /\ thread.pc = "returned"
    /\ thread.stream.open
    /\ ~thread.stream.wellFormed
    /\ future.state = "ready"
    /\ future.value = InfoAndUpdate

\* for the promise of the latest call: no value has been set while the thread
\* is on its way, and exactly one has been set, and the future is ready, once
\* the thread has returned, whichever way it went
C33_SetOnceAtReturn ==
    thread.pc # "none" =>
        /\ future.setValueCalls = IF thread.pc = "returned" THEN 1 ELSE 0
        /\ future.state = IF thread.pc = "returned" THEN "ready" ELSE "pending"
        /\ future.state \notin {"exception", "broken_promise"}

\* a promise that has its value keeps it unchanged until the next call of
\* checkForNewMessages makes a new promise
C33_ValueStays ==
    (thread.pc = "returned" /\ thread'.pc = "returned") => future' = future

\* every call's future becomes ready
C33_EventuallyReady ==
    (future.state = "pending") ~> (future.state = "ready" /\ thread.pc = "returned")

\* C33: for every call of checkForNewMessages, on every path of the
\* background thread (no stream, text that is no JSON, JSON with any
\* combination of Update and GeneralMessage) the promise is fulfilled exactly
\* once: it is never set twice and never abandoned, and under fair scheduling
\* of the thread the returned future eventually becomes ready.
C33_FulfilledExactlyOnce ==
    /\ []C33_SetOnceAtReturn
    /\ [][C33_ValueStays]_vars
    /\ C33_EventuallyReady

\* the thread has returned after an answer with both fields, each of which
\* made a message: the future is ready and its value was set once
C33_Witness ==
    /\ Answered
    /\ future.state = "ready"
    /\ future.setValueCalls = 1
    /\ hasProperty(thread.stream.document, "Update")
    /\ hasProperty(thread.stream.document, "GeneralMessage")
    /\ future.value.updateMessage # <<>>
    /\ future.value.generalMessage # <<>>

\* ====================================================== SettingsManager.cpp
\* A juce::String is the sequence of its code points, a std::string the
\* sequence of its bytes.
\* one code point below 0x800 in UTF-8
encodeUTF8(codePoint) ==
    IF codePoint < 128 THEN <<codePoint>>
    ELSE <<192 + (codePoint \div 64), 128 + (codePoint % 64)>>

\* juce::String::toStdString / toRawUTF8: the UTF-8 bytes
RECURSIVE toStdString(_)
toStdString(str) ==
    IF str = <<>> THEN <<>> ELSE encodeUTF8(Head(str)) \o toStdString(Tail(str))

\* juce::String (const std::string&): the bytes are taken over and read as UTF-8
RECURSIVE fromStdString(_)
fromStdString(bytes) ==
    IF bytes = <<>> THEN <<>>
    ELSE IF Head(bytes) < 128 THEN <<Head(bytes)>> \o fromStdString(Tail(bytes))
    ELSE <<(bytes[1] - 192) * 64 + (bytes[2] - 128)>> \o fromStdString(Tail(Tail(bytes)))

\* nlohmann::json: null, or an object whose members are typed values: a
\* boolean, a number_integer, a number_float (counted in halves) or a string
\* (its bytes). The caller's bool, int64_t, double and juce::String (its code
\* points) are kept the same way.
nullJson == [kind |-> "null"]

objectJson(members) == [kind |-> "object", members |-> members]

boolean(b) == [type |-> "boolean", boolean |-> b]

number_integer(n) == [type |-> "number_integer", integer |-> n]

number_float(halves) == [type |-> "number_float", halves |-> halves]

string(chars) == [type |-> "string", chars |-> chars]

\* basic_json::contains (key)
contains(json, key) == json.kind = "object" /\ key \in DOMAIN json.members

\* basic_json::operator[] (key) of a null or object value, then assignment
assign(json, key, value) ==
    IF json.kind = "null" THEN objectJson(key :> value)
    ELSE objectJson((key :> value) @@ json.members)

returned(value) == [thrown |-> FALSE, value |-> value]

\* nlohmann::detail::type_error 302
type_error == [thrown |-> TRUE, value |-> [type |-> "type_error"]]

\* basic_json::get<T>() of a member: bool wants a boolean, std::string a
\* string, int64_t and double any number, converted by static_cast
get(member, T) ==
    IF T = "boolean"
    THEN IF member.type = "boolean" THEN returned(member) ELSE type_error
    ELSE IF T = "string"
    THEN IF member.type = "string" THEN returned(member) ELSE type_error
    ELSE IF T = "number_integer"
    THEN IF member.type = "number_integer" THEN returned(member)
         ELSE IF member.type = "number_float"
         THEN returned(number_integer(IF member.halves >= 0 THEN member.halves \div 2
                                      ELSE 0 - ((0 - member.halves) \div 2)))
         ELSE type_error
    ELSE IF member.type = "number_float" THEN returned(member)
         ELSE IF member.type = "number_integer"
         THEN returned(number_float(2 * member.integer))
         ELSE type_error

\* mutant of getSetting: the member is read without asking contains() first
getSettingUnguarded(settings, id, defaultValue) ==
    LET str == toStdString(id)
    IN  IF contains(settings, str)
        THEN [settings |-> settings] @@ get(settings.members[str], defaultValue.type)
        ELSE [settings |-> assign(settings, str, [type |-> "null"])] @@ type_error

\* getSetting<T> (id, defaultValue), T one of bool, int64_t and double. The
\* result: the settings afterwards, and what was returned or thrown.
getSetting(settings, id, defaultValue) ==
    LET str == toStdString(id)
    IN  IF contains(settings, str)
        THEN [settings |-> settings] @@ get(settings.members[str], defaultValue.type)
        ELSE [settings |-> settings] @@ returned(defaultValue)

\* getStringSetting (id, defaultVal): the std::string becomes a juce::String
getStringSetting(settings, id, defaultVal) ==
    LET str   == toStdString(id)
        found == get(settings.members[str], "string")
    IN  IF contains(settings, str)
        THEN [settings |-> settings] @@
             (IF found.thrown THEN found
              ELSE returned(string(fromStdString(found.value.chars))))
        ELSE [settings |-> settings] @@ returned(defaultVal)

\* setSetting<T> (id, value): settings[id.toRawUTF8()] = value
setSetting(settings, id, value) ==
    [settings |-> assign(settings, toStdString(id), value),
     settingsWereWritten |-> TRUE]

\* writeSetting (id, const juce::String& val)
writeStringSetting(settings, id, val) ==
    [settings |-> assign(settings, toStdString(id),
                         string(toStdString(val.chars))),
     settingsWereWritten |-> TRUE]

\* a file without content, as juce::File::create leaves it
emptyFile == [exists |-> TRUE, wellFormed |-> FALSE, prefix |-> nullJson]

\* SettingsManager::SettingsManager(): `opened` is settingsFileStream.is_open().
\* A file that is no JSON makes operator>> throw after it has filled settings
\* with what it had parsed (prefix); the file is then deleted and created anew.
constructor(file, opened) ==
    IF ~file.exists THEN [settings |-> nullJson, file |-> emptyFile]
    ELSE IF ~opened THEN [settings |-> nullJson, file |-> file]
    ELSE IF file.wellFormed THEN [settings |-> file.document, file |-> file]
    ELSE [settings |-> file.prefix, file |-> emptyFile]

\* mutant of destructor: the file is written whether or not a setting was written
destructorAlwaysWrites(manager, file, opened) ==
    IF opened
    THEN [file |-> [exists |-> TRUE, wellFormed |-> TRUE,
                    document |-> manager.settings],
          rewritten |-> TRUE]
    ELSE [file |-> file, rewritten |-> FALSE]

\* SettingsManager::~SettingsManager(): `opened` is settingsFileStream.is_open()
\* of the std::ofstream opened with std::ios::trunc. The result: the file
\* afterwards, and whether it was truncated and written.
destructor(manager, file, opened) ==
    IF manager.settingsWereWritten /\ opened
    THEN [file |-> [exists |-> TRUE, wellFormed |-> TRUE,
                    document |-> manager.settings],
          rewritten |-> TRUE]
    ELSE [file |-> file, rewritten |-> FALSE]

\* the ids of the model: "a" and "é"
SettingIds == {<<97>>, <<233>>}

\* the values and defaults of the model, as the caller passes them: false and
\* true, 5 and 7, 1.5, "a" and "é"
SettingValues ==
    {boolean(FALSE), boolean(TRUE), number_integer(5), number_integer(7),
     number_float(3), string(<<97>>), string(<<233>>)}

\* what is on disk when the singleton is made: nothing, an empty file, a
\* truncated document, or the document an earlier run has written
SettingsFiles ==
    {[exists |-> FALSE], emptyFile,
     [exists |-> TRUE, wellFormed |-> FALSE,
      prefix |-> objectJson(<<97>> :> number_integer(5))]} \cup
    {[exists |-> TRUE, wellFormed |-> TRUE, document |-> objectJson(members)] :
        members \in {<<>>,
                     <<97>> :> number_integer(5),
                     (<<97>> :> boolean(TRUE))
                         @@ (<<195, 169>> :> string(<<195, 169>>))}}

\* the processor and MessageOfTheDay stay out of it
InitSettings ==
    /\ IdleProcessor
    /\ NoMessageOfTheDay
    /\ delayLine = nullptr
    /\ pushed    = <<>>
    /\ streamed  = <<>>
    /\ delayed   = <<>>
    /\ call      = [op |-> "none"]
    /\ settingsManager = [constructed |-> FALSE]
    /\ settingsFile \in SettingsFiles
    /\ lifetime = [constructed |-> FALSE]

settingsIdle == <<delayLine, pushed, streamed, delayed, processorVars, messageVars>>

\* SettingsManager::getInstance() for the first time
SettingsConstruct ==
    /\ ~lifetime.constructed
    /\ \E opened \in BOOLEAN :
         \E r \in {constructor(settingsFile, opened)} :
            /\ settingsManager' = [constructed |-> TRUE, settings |-> r.settings,
                                   settingsWereWritten |-> FALSE]
            /\ settingsFile' = r.file
            /\ lifetime' = [constructed |-> TRUE, destroyed |-> FALSE,
                            file |-> r.file, loaded |-> r.settings,
                            written |-> <<>>]
    /\ call' = [op |-> "construct"]
    /\ UNCHANGED settingsIdle

\* writeSetting (id, val) in any of its four overloads
WriteSetting ==
    /\ settingsManager.constructed
    /\ \E id \in SettingIds, val \in SettingValues :
         \E r \in {IF val.type = "string"
                   THEN writeStringSetting(settingsManager.settings, id, val)
                   ELSE setSetting(settingsManager.settings, id, val)} :
            /\ settingsManager' = [settingsManager EXCEPT
                                       !.settings = r.settings,
                                       !.settingsWereWritten = r.settingsWereWritten]
            /\ lifetime' = [lifetime EXCEPT !.written = (id :> val) @@ @]
            /\ call' = [op |-> "writeSetting", id |-> id, val |-> val]
    /\ UNCHANGED settingsFile
    /\ UNCHANGED settingsIdle

\* getBoolSetting, getInt64Setting, getDoubleSetting or getStringSetting (id, defaultVal)
GetSetting ==
    /\ settingsManager.constructed
    /\ \E id \in SettingIds, defaultVal \in SettingValues :
         \E r \in {IF defaultVal.type = "string"
                   THEN getStringSetting(settingsManager.settings, id, defaultVal)
                   ELSE getSetting(settingsManager.settings, id, defaultVal)} :
            /\ settingsManager' = [settingsManager EXCEPT !.settings = r.settings]
            /\ call' = [op |-> "getSetting", id |-> id, defaultVal |-> defaultVal,
                        thrown |-> r.thrown, value |-> r.value]
    /\ UNCHANGED <<settingsFile, lifetime>>
    /\ UNCHANGED settingsIdle

\* settingExists (id)
SettingExists ==
    /\ settingsManager.constructed
    /\ \E id \in SettingIds :
           call' = [op |-> "settingExists", id |-> id,
                    value |-> contains(settingsManager.settings, toStdString(id))]
    /\ UNCHANGED <<settingsManager, settingsFile, lifetime>>
    /\ UNCHANGED settingsIdle

\* the singleton is deleted at shutdown
SettingsDestroy ==
    /\ settingsManager.constructed
    /\ \E opened \in BOOLEAN :
         \E r \in {destructor(settingsManager, settingsFile, opened)} :
            /\ settingsFile' = r.file
            /\ call' = [op |-> "destroy", writable |-> opened,
                        rewritten |-> r.rewritten]
    /\ settingsManager' = [constructed |-> FALSE]
    /\ lifetime' = [lifetime EXCEPT !.destroyed = TRUE]
    /\ UNCHANGED settingsIdle

NextSettings ==
    \/ SettingsConstruct
    \/ WriteSetting
    \/ GetSetting
    \/ SettingExists
    \/ SettingsDestroy

SpecSettings == InitSettings /\ [][NextSettings]_vars

\* -------------------------------------------------- claims, SettingsManager
\* a value as the caller passes it, as the member that holds it
toJson(val) == IF val.type = "string" THEN string(toStdString(val.chars)) ELSE val

\* neither written in this lifetime nor among the loaded settings
absent(id) ==
    /\ id \notin DOMAIN lifetime.written
    /\ ~contains(lifetime.loaded, toStdString(id))

\* the member stored for an id that is not absent: the value last written,
\* or else the loaded one
storedMember(id) ==
    IF id \in DOMAIN lifetime.written THEN toJson(lifetime.written[id])
    ELSE lifetime.loaded.members[toStdString(id)]

\* what a getter of the type of d makes of that member
storedAs(id, d) ==
    LET r == get(storedMember(id), d.type)
    IN  IF r.thrown \/ d.type # "string" THEN r
        ELSE returned(string(fromStdString(r.value.chars)))

\* after writeSetting (id, v) a getter of the same type returns v, whatever
\* the default, until id is written again
C25_WrittenValueReturned ==
    (/\ call.op = "getSetting"
     /\ call.id \in DOMAIN lifetime.written
     /\ lifetime.written[call.id].type = call.defaultVal.type) =>
        /\ ~call.thrown
        /\ call.value = lifetime.written[call.id]

\* a getter returns its default when the id is absent, and otherwise what is
\* stored for the id
C25_StoredOrDefault ==
    call.op = "getSetting" =>
        IF absent(call.id)
        THEN ~call.thrown /\ call.value = call.defaultVal
        ELSE [thrown |-> call.thrown, value |-> call.value]
                 = storedAs(call.id, call.defaultVal)

\* a getter returns its default exactly when the id is absent
C25_DefaultIffAbsent ==
    call.op = "getSetting" =>
        ((~call.thrown /\ call.value = call.defaultVal) <=> absent(call.id))

\* a getter changes neither the settings nor the file
C25_GetterReadsOnly ==
    call'.op = "getSetting" =>
        /\ settingsManager' = settingsManager
        /\ settingsFile' = settingsFile

C26_FileUntouchedInBetween ==
    call'.op \in {"writeSetting", "getSetting", "settingExists"} =>
        settingsFile' = settingsFile

\* the destructor truncates and writes the file exactly when a setting was
\* written; without a write the file is as the constructor left it
C26_RewrittenIffWritten ==
    call.op = "destroy" =>
        /\ call.rewritten <=> (DOMAIN lifetime.written # {})
        /\ DOMAIN lifetime.written = {} => settingsFile = lifetime.file

\* the destructor truncates and writes the file exactly when a setting was
\* written and the file can be opened for writing; the file then holds every
\* written value, and otherwise is as the constructor left it
C26_RewrittenIffWrittenAndWritable ==
    call.op = "destroy" =>
        /\ call.rewritten <=> (DOMAIN lifetime.written # {} /\ call.writable)
        /\ call.rewritten =>
               /\ settingsFile.exists /\ settingsFile.wellFormed
               /\ \A id \in DOMAIN lifetime.written :
                      /\ contains(settingsFile.document, toStdString(id))
                      /\ settingsFile.document.members[toStdString(id)]
                             = toJson(lifetime.written[id])
        /\ ~call.rewritten => settingsFile = lifetime.file

====
